---- MODULE Spec2Model ----
(***************************************************************************)
(* Federation pipeline of db-query: the cross-database query planner       *)
(* (services/datafusion/cross_db_planner.rs), the federated executor       *)
(* (services/datafusion/federated_executor.rs) and the two HTTP handlers    *)
(* that drive them (api/handlers/cross_database_query.rs and                *)
(* api/handlers/query.rs).                                                  *)
(*                                                                         *)
(* SQL text is a sequence of tokens.  The sqlparser AST is a tree of       *)
(* records; every record kind keeps the same field set, an Option or a Box  *)
(* is a sequence of length 0 or 1.                                          *)
(***************************************************************************)
EXTENDS Integers, Sequences, FiniteSets, TLC

\* ------------------------------------------------------------------------
\* Bounds of the model
\* ------------------------------------------------------------------------
\* longest connection_ids list of a request, and size of the connection universe
MaxConns == 2
\* most rows an adapter returns for one sub-query
MaxRows == 2
\* largest limit_value of a request
MaxLimit == 2
\* calls made on a pool manager or on a query cache in one run
MaxCalls == 4
\* largest max_size of a QueryResultCache
MaxSize == 2
\* seconds that pass in one run
MaxTime == 2

\* ------------------------------------------------------------------------
\* Generic helpers
\* ------------------------------------------------------------------------
Range(s) == {s[i] : i \in 1..Len(s)}

Min(a, b) == IF a <= b THEN a ELSE b

\* all orders in which a hash map with key set S can be iterated
Perms(S) ==
  {s \in [1..Cardinality(S) -> S] : \A i, j \in 1..Cardinality(S) : i # j => s[i] # s[j]}

\* sequences without repetition over S, of length lo..hi
InjSeqs(S, lo, hi) ==
  UNION {{s \in [1..n -> S] : \A i, j \in 1..n : i # j => s[i] # s[j]} : n \in lo..hi}

RECURSIVE Concat(_)
Concat(ss) == IF ss = <<>> THEN <<>> ELSE Head(ss) \o Concat(Tail(ss))

\* Vec::join / punctuation between rendered items
RECURSIVE JoinWith(_, _)
JoinWith(ss, sep) ==
  IF ss = <<>> THEN <<>>
  ELSE IF Len(ss) = 1 THEN ss[1]
  ELSE ss[1] \o sep \o JoinWith(Tail(ss), sep)

\* Option<T>::unwrap_or
unwrap_or(opt, dflt) == IF opt = <<>> THEN dflt ELSE opt[1]

ConnIdNames == <<"c1", "c2", "c3", "c4">>
ConnIds == {ConnIdNames[i] : i \in 1..Min(MaxConns, Len(ConnIdNames))}

\* Result<T, AppError>
Ok(v) == [ok |-> TRUE, val |-> v, err |-> ""]
Err(e) == [ok |-> FALSE, val |-> <<>>, err |-> e]

\* ------------------------------------------------------------------------
\* sqlparser AST (the part of it the planner inspects)
\* ------------------------------------------------------------------------
NoAlias == ""

\* the grave accent, a piece of SQL text of its own like the two other quote
\* characters, written by its name
Backtick == "GRAVE"

\* Expr and SelectItem.  quote_style is the Option<char> of an Ident; value
\* holds the text of a quoted identifier or of a literal, piece by piece.
\* kind is Identifier, CompoundIdentifier, BinaryOp, Value (a quoted string
\* or a number), Interval (left: its value, idents: its leading field),
\* Function (without arguments; op "()" when written with parentheses),
\* Wildcard
ExprOf(k, ids, q, v, o, l, r) ==
  [kind |-> k, idents |-> ids, quote_style |-> q, value |-> v, op |-> o, left |-> l, right |-> r]

CompoundIdentifier(parts) == ExprOf("CompoundIdentifier", parts, <<>>, <<>>, "", <<>>, <<>>)
Identifier(v) == ExprOf("Identifier", <<v>>, <<>>, <<>>, "", <<>>, <<>>)
BinaryOp(l, o, r) == ExprOf("BinaryOp", <<>>, <<>>, <<>>, o, <<l>>, <<r>>)

TableFactorTable(n, a) == [kind |-> "Table", name |-> n, alias |-> a, subquery |-> <<>>]
TableFactorDerived(sel, a) == [kind |-> "Derived", name |-> <<>>, alias |-> a, subquery |-> <<sel>>]

Join(rel, jop, cons) == [relation |-> rel, join_operator |-> jop, constraint |-> cons]
TableWithJoins(rel, js) == [relation |-> rel, joins |-> js]
SelectWhere(p, f, w) == [projection |-> p, from |-> f, selection |-> w]
Select(f) == SelectWhere(<<ExprOf("Wildcard", <<>>, <<>>, <<>>, "", <<>>, <<>>)>>, f, <<>>)

SetExprSelect(sel) ==
  [kind |-> "Select", select |-> <<sel>>, op |-> "", all |-> FALSE, left |-> <<>>, right |-> <<>>]
SetExprSetOperation(l, o, a, r) ==
  [kind |-> "SetOperation", select |-> <<>>, op |-> o, all |-> a, left |-> <<l>>, right |-> <<r>>]
SetExprQuery(b) ==
  [kind |-> "Query", select |-> <<>>, op |-> "", all |-> FALSE, left |-> <<b>>, right |-> <<>>]
SetExprValues ==
  [kind |-> "Values", select |-> <<>>, op |-> "", all |-> FALSE, left |-> <<>>, right |-> <<>>]

StatementQuery(b) == [kind |-> "Query", body |-> <<b>>]
StatementInsert == [kind |-> "Insert", body |-> <<>>]

\* ------------------------------------------------------------------------
\* Display of the AST (format!("{}", select)) as tokens
\* ------------------------------------------------------------------------
RenderName(parts) == JoinWith([i \in 1..Len(parts) |-> <<parts[i]>>], <<".">>)

RenderAlias(a) == IF a = NoAlias THEN <<>> ELSE <<"AS", a>>

RECURSIVE RenderExpr(_)
RenderExpr(e) ==
  CASE e.kind = "CompoundIdentifier" -> RenderName(e.idents)
    [] e.kind = "Identifier" ->
         IF e.quote_style = <<>> THEN e.idents ELSE e.quote_style \o e.value \o e.quote_style
    [] e.kind = "Value" -> e.quote_style \o e.value \o e.quote_style
    [] e.kind = "Interval" -> <<"INTERVAL">> \o RenderExpr(e.left[1]) \o e.idents
    [] e.kind = "Function" -> e.idents \o (IF e.op = "()" THEN <<"(", ")">> ELSE <<>>)
    [] e.kind = "Wildcard" -> <<"*">>
    [] OTHER -> RenderExpr(e.left[1])
                \o <<CASE e.op = "Eq" -> "=" [] e.op = "And" -> "AND" [] e.op = "GtEq" -> ">="
                       [] e.op = "Minus" -> "-" [] OTHER -> ">">>
                \o RenderExpr(e.right[1])

RenderJoinOperator(jop) ==
  CASE jop = "Inner" -> <<"JOIN">>
    [] jop = "LeftOuter" -> <<"LEFT", "JOIN">>
    [] jop = "RightOuter" -> <<"RIGHT", "JOIN">>
    [] OTHER -> <<"CROSS", "JOIN">>

RECURSIVE RenderSelect(_)
RECURSIVE RenderFactor(_)
RenderFactor(f) ==
  IF f.kind = "Table" THEN RenderName(f.name) \o RenderAlias(f.alias)
  ELSE <<"(">> \o RenderSelect(f.subquery[1]) \o <<")">> \o RenderAlias(f.alias)

RenderJoin(j) ==
  RenderJoinOperator(j.join_operator) \o RenderFactor(j.relation)
  \o (IF j.constraint = <<>> THEN <<>> ELSE <<"ON">> \o RenderExpr(j.constraint[1]))

RenderTableWithJoins(t) ==
  RenderFactor(t.relation) \o Concat([i \in 1..Len(t.joins) |-> RenderJoin(t.joins[i])])

RenderSelect(s) ==
  <<"SELECT">>
  \o JoinWith([i \in 1..Len(s.projection) |-> RenderExpr(s.projection[i])], <<",">>)
  \o <<"FROM">>
  \o JoinWith([i \in 1..Len(s.from) |-> RenderTableWithJoins(s.from[i])], <<",">>)
  \o (IF s.selection = <<>> THEN <<>> ELSE <<"WHERE">> \o RenderExpr(s.selection[1]))

RenderSetOperator(o, a) ==
  <<CASE o = "Union" -> "UNION" [] o = "Except" -> "EXCEPT" [] OTHER -> "INTERSECT">>
  \o (IF a THEN <<"ALL">> ELSE <<>>)

RECURSIVE RenderSetExpr(_)
RenderSetExpr(b) ==
  CASE b.kind = "Select" -> RenderSelect(b.select[1])
    [] b.kind = "SetOperation" ->
         RenderSetExpr(b.left[1]) \o RenderSetOperator(b.op, b.all) \o RenderSetExpr(b.right[1])
    [] b.kind = "Query" -> <<"(">> \o RenderSetExpr(b.left[1]) \o <<")">>
    [] OTHER -> <<"VALUES", "(", "1", ")">>

RenderStatement(st) ==
  IF st.kind = "Query" THEN RenderSetExpr(st.body[1])
  ELSE <<"INSERT", "INTO", "users", "VALUES", "(", "1", ")">>

RenderStatements(sts) ==
  JoinWith([i \in 1..Len(sts) |-> RenderStatement(sts[i])], <<";">>)

\* ------------------------------------------------------------------------
\* The SQL the model is explored on
\* ------------------------------------------------------------------------
UsersNames == {<<"users">>, <<"c1", "users">>, <<"db1", "users">>, <<"zz", "users">>}
TodosNames == {<<"todos">>, <<"c2", "todos">>, <<"db2", "todos">>, <<"db1", "todos">>}

SelectFrom(f) == Select(<<TableWithJoins(f, <<>>)>>)

\* SELECT * FROM (SELECT * FROM zz.users) AS x
DerivedUnknown == TableFactorDerived(SelectFrom(TableFactorTable(<<"zz", "users">>, NoAlias)), "x")

\* SELECT * FROM (SELECT * FROM users) AS x
DerivedPlain == TableFactorDerived(SelectFrom(TableFactorTable(<<"users">>, NoAlias)), "x")

SingleSelects ==
  {SelectFrom(TableFactorTable(n, NoAlias)) : n \in UsersNames \cup TodosNames}
  \cup {SelectFrom(TableFactorTable(<<"db1", "users">>, "u"))}

OtherSelects ==
  {SelectFrom(TableFactorTable(<<"c1", "public", "users">>, NoAlias)),
   SelectFrom(DerivedPlain)}

\* the ON clauses: equality of two qualified columns (either way round), an
\* AND chain, unqualified columns, a non-equality
OnClauses(l, r) ==
  {<<BinaryOp(CompoundIdentifier(<<l, "id">>), "Eq", CompoundIdentifier(<<r, "user_id">>))>>,
   <<BinaryOp(CompoundIdentifier(<<r, "user_id">>), "Eq", CompoundIdentifier(<<l, "id">>))>>,
   <<BinaryOp(BinaryOp(CompoundIdentifier(<<l, "id">>), "Eq", CompoundIdentifier(<<r, "user_id">>)),
              "And",
              BinaryOp(CompoundIdentifier(<<l, "org">>), "Eq", CompoundIdentifier(<<r, "org">>)))>>,
   <<BinaryOp(Identifier("id"), "Eq", Identifier("user_id"))>>,
   <<BinaryOp(CompoundIdentifier(<<l, "id">>), "Gt", CompoundIdentifier(<<r, "user_id">>))>>}

JoinsOf(un, tn, ua, ta) ==
  LET l == IF ua = NoAlias THEN "users" ELSE ua
      r == IF ta = NoAlias THEN "todos" ELSE ta
      right == TableFactorTable(tn, ta)
  IN  {Join(right, "Inner", c) : c \in OnClauses(l, r) \cup OnClauses("users", "todos")}
      \cup {Join(right, "LeftOuter", c) : c \in OnClauses(l, r)}
      \cup {Join(right, "CrossJoin", <<>>)}

JoinSelects ==
  UNION {UNION {{Select(<<TableWithJoins(TableFactorTable(un, al[1]), <<j>>)>>)
                    : j \in JoinsOf(un, tn, al[1], al[2])}
                \cup {Select(<<TableWithJoins(TableFactorTable(un, al[1]), <<>>),
                              TableWithJoins(TableFactorTable(tn, al[2]), <<>>)>>),
                      Select(<<TableWithJoins(TableFactorTable(un, al[1]),
                                  <<Join(DerivedUnknown, "Inner",
                                         <<BinaryOp(Identifier("id"), "Eq", Identifier("user_id"))>>)>>)>>)}
                : al \in {<<NoAlias, NoAlias>>, <<"u", "t">>, <<"todos", "t">>}}
         : un \in UsersNames, tn \in TodosNames}

\* SELECT <item> FROM users WHERE created_at >= <expr>.  The items: *, and
\* the identifiers id and it-s (with an apostrophe) in double quotes and in
\* backticks.  The expressions: date functions and interval literals in the
\* unified and in the MySQL spelling, and string literals that hold quotes
DialectSelects ==
  LET QuotedIdentifier(q, parts) == ExprOf("Identifier", <<>>, <<q>>, parts, "", <<>>, <<>>)
      SingleQuotedString(parts) == ExprOf("Value", <<>>, <<"'">>, parts, "", <<>>, <<>>)
      Number(n) == ExprOf("Value", <<>>, <<>>, <<n>>, "", <<>>, <<>>)
      Interval(v, leading_field) == ExprOf("Interval", leading_field, <<>>, <<>>, "", <<v>>, <<>>)
      Function(name, parens) == ExprOf("Function", <<name>>, <<>>, <<>>, parens, <<>>, <<>>)
      items == {ExprOf("Wildcard", <<>>, <<>>, <<>>, "", <<>>, <<>>)}
               \cup {QuotedIdentifier(q, v) : q \in {"\"", Backtick},
                                              v \in {<<"id">>, <<"it", "'", "s">>}}
      exprs ==
        {Function("CURRENT_DATE", ""), Function("CURRENT_TIMESTAMP", ""),
         Function("CURDATE", "()"), Function("NOW", "()"),
         BinaryOp(Function("CURRENT_DATE", ""), "Minus",
                  Interval(SingleQuotedString(<<"7", "days">>), <<>>)),
         BinaryOp(Function("CURRENT_DATE", ""), "Minus",
                  Interval(SingleQuotedString(<<"2", "days">>), <<>>)),
         BinaryOp(Function("CURDATE", "()"), "Minus", Interval(Number("7"), <<"DAY">>)),
         BinaryOp(Function("CURDATE", "()"), "Minus",
                  Interval(SingleQuotedString(<<"2", "days">>), <<>>)),
         SingleQuotedString(<<"say", "\"", "hi", "\"">>),
         SingleQuotedString(<<"say", Backtick, "hi", Backtick>>)}
  IN  {SelectWhere(<<p>>, <<TableWithJoins(TableFactorTable(<<"users">>, NoAlias), <<>>)>>,
                   <<BinaryOp(Identifier("created_at"), "GtEq", e)>>)
          : p \in items, e \in exprs}

\* SELECT * FROM db1.users WHERE email = 'a@db1.com'
LiteralSelect ==
  [Select(<<TableWithJoins(TableFactorTable(<<"db1", "users">>, NoAlias), <<>>)>>) EXCEPT
     !.selection = <<BinaryOp(Identifier("email"), "Eq",
                              ExprOf("Value", <<>>, <<"'">>, <<"a@", "db1", ".", "com">>,
                                     "", <<>>, <<>>))>>]

UnionArms ==
  SingleSelects
  \cup {SelectFrom(DerivedPlain),
        Select(<<TableWithJoins(TableFactorTable(<<"c1", "users">>, NoAlias), <<>>),
                 TableWithJoins(TableFactorTable(<<"c2", "todos">>, NoAlias), <<>>)>>)}

\* every SELECT of the corpus has to parse on its own: plan_union_query
\* renders each arm and parses it again
SetOperations ==
  {SetExprSetOperation(SetExprSelect(a), o[1], o[2], SetExprSelect(b))
      : a \in UnionArms, b \in UnionArms,
        o \in {<<"Union", FALSE>>, <<"Union", TRUE>>, <<"Except", FALSE>>}}
  \cup {SetExprSetOperation(
          SetExprSetOperation(SetExprSelect(SelectFrom(TableFactorTable(<<"c1", "users">>, NoAlias))),
                              "Union", a,
                              SetExprQuery(SetExprSelect(SelectFrom(TableFactorTable(<<"c2", "todos">>, NoAlias))))),
          "Union", a,
          SetExprSelect(SelectFrom(TableFactorTable(<<"users">>, NoAlias))))
          : a \in BOOLEAN}

QueryBodies ==
  {SetExprSelect(s) : s \in SingleSelects \cup OtherSelects \cup JoinSelects
                            \cup DialectSelects \cup {LiteralSelect}}
  \cup SetOperations \cup {SetExprValues}

\* what Parser::parse_sql can return: no statement, one statement, two statements
Corpus ==
  {<<>>}
  \cup {<<StatementQuery(b)>> : b \in QueryBodies}
  \cup {<<StatementInsert>>}
  \cup {<<StatementQuery(SetExprSelect(SelectFrom(TableFactorTable(<<"users">>, NoAlias)))), StatementInsert>>}

\* text that is not SQL
BadSql == <<"SELEC", "*">>

ParseTable == {<<RenderStatements(ss), ss>> : ss \in Corpus}

\* the statement list each text of the corpus is the rendering of
ParsedAs == [t \in {p[1] : p \in ParseTable} |-> (CHOOSE p \in ParseTable : p[1] = t)[2]]

QueryTexts == DOMAIN ParsedAs \cup {BadSql}

\* sqlparser::parser::Parser::parse_sql(&GenericDialect {}, sql): the
\* statement list whose rendering is the text, a parse error when there is none
Parser_parse_sql(sql) ==
  IF sql \in DOMAIN ParsedAs THEN Ok(ParsedAs[sql]) ELSE Err("InvalidSql")

\* ------------------------------------------------------------------------
\* CrossDatabaseQueryRequest
\* ------------------------------------------------------------------------
\* CrossDatabaseQueryRequest::validate: a non-empty query and at least one
\* connection id
validate(request) ==
  IF request.query = <<>> \/ request.connection_ids = <<>> THEN Err("Validation") ELSE Ok(<<>>)

\* ------------------------------------------------------------------------
\* CrossDatabaseQueryPlanner.  A planner is its connection_map (qualifier ->
\* connection id) together with the order in which that HashMap iterates.
\* ------------------------------------------------------------------------
CrossDatabaseQueryPlanner_new(connection_ids) == [id \in Range(connection_ids) |-> id]

with_aliases(aliases) == aliases

from_request(request) ==
  IF request.database_aliases # <<>> THEN with_aliases(request.database_aliases[1])
  ELSE CrossDatabaseQueryPlanner_new(request.connection_ids)

parse_table_name(self, name) ==
  CASE Len(name) = 1 ->
         IF self.key_order = <<>> THEN Err("Validation")
         ELSE Ok([qualifier |-> self.key_order[1], alias |-> NoAlias, table |-> name[1]])
    [] Len(name) = 2 ->
         IF name[1] \notin DOMAIN self.connection_map THEN Err("Validation")
         ELSE Ok([qualifier |-> name[1], alias |-> NoAlias, table |-> name[2]])
    [] OTHER -> Err("InvalidSql")

\* the relations of a SELECT in the order extract_tables visits them
FromFactors(select) ==
  Concat([i \in 1..Len(select.from) |->
            <<select.from[i].relation>>
            \o [j \in 1..Len(select.from[i].joins) |-> select.from[i].joins[j].relation]])

RECURSIVE extract_tables_loop(_, _, _)
extract_tables_loop(self, factors, tables) ==
  IF factors = <<>> THEN Ok(tables)
  ELSE LET f == Head(factors) IN
       IF f.kind # "Table" THEN extract_tables_loop(self, Tail(factors), tables)
       ELSE LET r == parse_table_name(self, f.name) IN
            IF ~r.ok THEN r
            ELSE extract_tables_loop(self, Tail(factors),
                   Append(tables, [qualifier |-> r.val.qualifier, alias |-> f.alias,
                                   table |-> r.val.table]))

extract_tables(self, select) == extract_tables_loop(self, FromFactors(select), <<>>)

TableNames(tables) == [i \in 1..Len(tables) |-> tables[i].table]

identify_databases(self, tables) ==
  IF \E i \in 1..Len(tables) : tables[i].qualifier \notin DOMAIN self.connection_map
  THEN Err("Validation")
  ELSE Ok([c \in {self.connection_map[tables[i].qualifier] : i \in 1..Len(tables)} |->
             TableNames(SelectSeq(tables, LAMBDA t : self.connection_map[t.qualifier] = c))])

\* String::replace(&format!("{}.", alias), "")
RECURSIVE ReplacePattern(_, _)
ReplacePattern(tokens, alias) ==
  IF Len(tokens) < 2 THEN tokens
  ELSE IF tokens[1] = alias /\ tokens[2] = "."
       THEN ReplacePattern(SubSeq(tokens, 3, Len(tokens)), alias)
       ELSE <<tokens[1]>> \o ReplacePattern(Tail(tokens), alias)

RECURSIVE strip_loop(_, _)
strip_loop(result, aliases) ==
  IF aliases = <<>> THEN result
  ELSE strip_loop(ReplacePattern(result, Head(aliases)), Tail(aliases))

strip_qualifiers(self, sql) ==
  LET statements == Parser_parse_sql(sql) IN
  IF ~statements.ok THEN Err("InvalidSql")
  ELSE IF statements.val = <<>> THEN Err("InvalidSql")
  ELSE Ok(strip_loop(sql, self.key_order))

\* request.timeout_secs.unwrap_or(60), request.limit_value.unwrap_or(1000)
DefaultTimeoutSecs == 60
DefaultLimitValue == 1000

PlanOf(request, sub_queries, merge_strategy) ==
  [original_query |-> request.query,
   sub_queries |-> sub_queries,
   merge_strategy |-> merge_strategy,
   timeout_secs |-> unwrap_or(request.timeout_secs, DefaultTimeoutSecs),
   apply_limit |-> unwrap_or(request.apply_limit, TRUE),
   limit_value |-> unwrap_or(request.limit_value, DefaultLimitValue)]

MergeStrategyNone == [kind |-> "None", conditions |-> <<>>, all |-> FALSE]
MergeStrategyInnerJoin(c) == [kind |-> "InnerJoin", conditions |-> c, all |-> FALSE]
MergeStrategyLeftJoin(c) == [kind |-> "LeftJoin", conditions |-> c, all |-> FALSE]
MergeStrategyUnion(a) == [kind |-> "Union", conditions |-> <<>>, all |-> a]

\* plan_single_database_query with one SubQuery per table of the query
plan_single_database_query_per_table(self, tables, request) ==
  LET qualifier == tables[1].qualifier IN
  IF qualifier \notin DOMAIN self.connection_map THEN Err("Validation")
  ELSE LET query_without_qualifiers == strip_qualifiers(self, request.query) IN
       IF ~query_without_qualifiers.ok THEN query_without_qualifiers
       ELSE Ok(PlanOf(request,
                 [i \in 1..Len(tables) |->
                    [connection_id |-> self.connection_map[qualifier],
                     database_type |-> "unknown",
                     query |-> query_without_qualifiers.val,
                     tables |-> <<tables[i].table>>,
                     result_alias |-> "result"]],
                 MergeStrategyNone))

plan_single_database_query(self, tables, request) ==
  LET qualifier == tables[1].qualifier IN
  IF qualifier \notin DOMAIN self.connection_map THEN Err("Validation")
  ELSE LET query_without_qualifiers == strip_qualifiers(self, request.query) IN
       IF ~query_without_qualifiers.ok THEN query_without_qualifiers
       ELSE Ok(PlanOf(request,
                 <<[connection_id |-> self.connection_map[qualifier],
                    database_type |-> "unknown",
                    query |-> query_without_qualifiers.val,
                    tables |-> TableNames(tables),
                    result_alias |-> "result"]>>,
                 MergeStrategyNone))

\* extract_table_column with the lookup turned round: a qualifier that is the
\* alias of a table is replaced by the name of that table
extract_table_column_to_table(expr, table_aliases) ==
  IF expr.kind = "CompoundIdentifier" /\ Len(expr.idents) = 2
  THEN <<[table |-> IF \E n \in DOMAIN table_aliases : table_aliases[n] = expr.idents[1]
                    THEN CHOOSE n \in DOMAIN table_aliases : table_aliases[n] = expr.idents[1]
                    ELSE expr.idents[1],
          column |-> expr.idents[2]]>>
  ELSE <<>>

extract_table_column(expr, table_aliases) ==
  IF expr.kind = "CompoundIdentifier" /\ Len(expr.idents) = 2
  THEN <<[table |-> IF expr.idents[1] \in DOMAIN table_aliases
                    THEN table_aliases[expr.idents[1]] ELSE expr.idents[1],
          column |-> expr.idents[2]]>>
  ELSE <<>>

RECURSIVE parse_all_join_conditions(_, _)
parse_all_join_conditions(expr, table_aliases) ==
  IF expr.kind # "BinaryOp" THEN <<>>
  ELSE IF expr.op = "And"
       THEN parse_all_join_conditions(expr.left[1], table_aliases)
            \o parse_all_join_conditions(expr.right[1], table_aliases)
  ELSE IF expr.op = "Eq"
       THEN LET l == extract_table_column(expr.left[1], table_aliases)
                r == extract_table_column(expr.right[1], table_aliases)
            IN  IF l # <<>> /\ r # <<>>
                THEN <<[left_alias |-> l[1].table, left_column |-> l[1].column,
                        right_alias |-> r[1].table, right_column |-> r[1].column]>>
                ELSE <<>>
  ELSE <<>>

\* the table_aliases map of extract_join_conditions: table name -> alias (the
\* table name itself when there is no alias); a later insert overwrites
TableAliases(tables) ==
  [n \in Range(TableNames(tables)) |->
     LET last == CHOOSE i \in 1..Len(tables) :
                   tables[i].table = n /\ \A j \in (i + 1)..Len(tables) : tables[j].table # n
     IN  IF tables[last].alias # NoAlias THEN tables[last].alias ELSE n]

extract_join_conditions(select, tables) ==
  LET table_aliases == TableAliases(tables)
      joins == Concat([i \in 1..Len(select.from) |-> select.from[i].joins])
  IN  Concat([i \in 1..Len(joins) |->
        IF joins[i].join_operator \in {"Inner", "LeftOuter", "RightOuter"}
           /\ joins[i].constraint # <<>>
        THEN parse_all_join_conditions(joins[i].constraint[1], table_aliases)
        ELSE <<>>])

\* db_order is the order in which the databases HashMap is iterated
plan_join_query(self, select, tables, request, db_order) ==
  LET databases == identify_databases(self, tables) IN
  IF ~databases.ok THEN databases
  ELSE
    LET join_conditions == extract_join_conditions(select, tables)
        order == SelectSeq(db_order, LAMBDA c : c \in DOMAIN databases.val)
        SubQueryOf(conn_id) ==
          LET table_names == databases.val[conn_id]
              found == {i \in 1..Len(tables) :
                          self.connection_map[tables[i].qualifier] = conn_id
                          /\ tables[i].table \in Range(table_names)}
              first == CHOOSE i \in found : \A j \in found : i <= j
          IN  [connection_id |-> conn_id,
               database_type |-> "unknown",
               query |-> <<"SELECT", "*", "FROM">>
                         \o JoinWith([i \in 1..Len(table_names) |-> <<table_names[i]>>], <<",">>),
               tables |-> table_names,
               result_alias |-> IF found = {} THEN "result_"
                                ELSE IF tables[first].alias # NoAlias THEN tables[first].alias
                                ELSE tables[first].table]
    IN  Ok(PlanOf(request, [k \in 1..Len(order) |-> SubQueryOf(order[k])],
                  MergeStrategyInnerJoin(join_conditions)))

RECURSIVE extract_set_operation_selects(_)
extract_set_operation_selects(set_expr) ==
  CASE set_expr.kind = "Select" -> <<RenderSelect(set_expr.select[1])>>
    [] set_expr.kind = "SetOperation" ->
         extract_set_operation_selects(set_expr.left[1])
         \o extract_set_operation_selects(set_expr.right[1])
    [] set_expr.kind = "Query" -> extract_set_operation_selects(set_expr.left[1])
    [] OTHER -> <<>>

extract_union_selects(body) ==
  LET selects == extract_set_operation_selects(body) IN
  IF selects = <<>> THEN Err("InvalidSql") ELSE Ok(selects)

UnionPartNames == <<"union_part_0", "union_part_1", "union_part_2", "union_part_3">>

\* the loop of plan_union_query over the SELECTs, idx counted from 1
RECURSIVE plan_union_loop(_, _, _, _)
plan_union_loop(self, select_queries, idx, sub_queries) ==
  IF idx > Len(select_queries) THEN Ok(sub_queries)
  ELSE
    LET select_sql == select_queries[idx]
        parsed == Parser_parse_sql(select_sql)
    IN
    IF ~parsed.ok THEN Err("InvalidSql")
    ELSE IF parsed.val = <<>> \/ parsed.val[1].kind # "Query"
            \/ parsed.val[1].body[1].kind # "Select"
    THEN plan_union_loop(self, select_queries, idx + 1, sub_queries)
    ELSE
      LET tables == extract_tables(self, parsed.val[1].body[1].select[1]) IN
      IF ~tables.ok THEN tables
      ELSE IF tables.val = <<>> THEN plan_union_loop(self, select_queries, idx + 1, sub_queries)
      ELSE IF tables.val[1].qualifier \notin DOMAIN self.connection_map THEN Err("Validation")
      ELSE
        LET stripped_sql == strip_qualifiers(self, select_sql) IN
        IF ~stripped_sql.ok THEN stripped_sql
        ELSE plan_union_loop(self, select_queries, idx + 1,
               Append(sub_queries,
                 [connection_id |-> self.connection_map[tables.val[1].qualifier],
                  database_type |-> "unknown",
                  query |-> stripped_sql.val,
                  tables |-> TableNames(tables.val),
                  result_alias |-> UnionPartNames[idx]]))

\* matches!(op, SetOperator::Union): the operator is Union for UNION and for
\* UNION ALL alike, the ALL is the set quantifier
is_union_all(op) == op = "Union"

plan_union_query(self, body, request, op) ==
  LET select_queries == extract_union_selects(body) IN
  IF ~select_queries.ok THEN select_queries
  ELSE LET sub_queries == plan_union_loop(self, select_queries.val, 1, <<>>) IN
       IF ~sub_queries.ok THEN sub_queries
       ELSE IF sub_queries.val = <<>> THEN Err("InvalidSql")
       ELSE Ok(PlanOf(request, sub_queries.val, MergeStrategyUnion(is_union_all(op))))

\* plan_select_query without the databases.len() == 1 case
plan_select_query_always_join(self, body, request, db_order) ==
  IF body.kind = "SetOperation" THEN plan_union_query(self, body, request, body.op)
  ELSE IF body.kind = "Select" THEN
    LET select == body.select[1]
        tables == extract_tables(self, select)
    IN  IF ~tables.ok THEN tables
        ELSE IF tables.val = <<>> THEN Err("InvalidSql")
        ELSE plan_join_query(self, select, tables.val, request, db_order)
  ELSE Err("InvalidSql")

plan_select_query(self, body, request, db_order) ==
  IF body.kind = "SetOperation" THEN plan_union_query(self, body, request, body.op)
  ELSE IF body.kind = "Select" THEN
    LET select == body.select[1]
        tables == extract_tables(self, select)
    IN  IF ~tables.ok THEN tables
        ELSE IF tables.val = <<>> THEN Err("InvalidSql")
        ELSE LET databases == identify_databases(self, tables.val) IN
             IF ~databases.ok THEN databases
             ELSE IF Cardinality(DOMAIN databases.val) = 1
                  THEN plan_single_database_query(self, tables.val, request)
                  ELSE plan_join_query(self, select, tables.val, request, db_order)
  ELSE Err("InvalidSql")

plan_query(self, request, db_order) ==
  IF ~validate(request).ok THEN Err("Validation")
  ELSE LET statements == Parser_parse_sql(request.query) IN
       IF ~statements.ok THEN Err("InvalidSql")
       ELSE IF statements.val = <<>> THEN Err("InvalidSql")
       ELSE IF statements.val[1].kind = "Query"
            THEN plan_select_query(self, statements.val[1].body[1], request, db_order)
            ELSE Err("InvalidSql")

\* ------------------------------------------------------------------------
\* JSON values (serde_json::Value) and Arrow record batches
\* ------------------------------------------------------------------------
JInt(n) == [t |-> "int", i |-> n, s |-> "", b |-> FALSE]
\* the float h/2, so that the float 1.0 (JFloat(2)) is not the integer 1
JFloat(h) == [t |-> "float", i |-> h, s |-> "", b |-> FALSE]
JStr(x) == [t |-> "str", i |-> 0, s |-> x, b |-> FALSE]
JBool(x) == [t |-> "bool", i |-> 0, s |-> "", b |-> x]
JNull == [t |-> "null", i |-> 0, s |-> "", b |-> FALSE]

\* the keys of a JSON object come out in sorted order
ColumnOrder == <<"flag", "id", "name", "score", "title", "user_id", "utitle">>
SortedKeys(row) == SelectSeq(ColumnOrder, LAMBDA c : c \in DOMAIN row)

InferType(value) ==
  CASE value.t = "int" -> "Int64"
    [] value.t = "float" -> "Float64"
    [] value.t = "str" -> "Utf8"
    [] value.t = "bool" -> "Boolean"
    [] OTHER -> "Utf8"

\* one cell of the array built for a column of the given type
CellOf(data_type, row, column_name) ==
  IF column_name \notin DOMAIN row THEN JNull
  ELSE LET v == row[column_name] IN
       CASE data_type = "Int64" -> IF v.t = "int" THEN v ELSE JNull
         [] data_type = "Float64" ->
              IF v.t = "float" THEN v ELSE IF v.t = "int" THEN JFloat(2 * v.i) ELSE JNull
         [] OTHER -> IF v.t = "str" THEN v ELSE JNull

\* a RecordBatch is its schema fields and its rows of cells, by position.
\* A Boolean field gets a StringArray, which RecordBatch::try_new rejects.
json_to_record_batch(rows) ==
  IF rows = <<>> THEN Ok([fields |-> <<>>, rows |-> <<>>])
  ELSE
    LET column_names == SortedKeys(rows[1])
        fields == [k \in 1..Len(column_names) |->
                     [name |-> column_names[k], data_type |-> InferType(rows[1][column_names[k]])]]
    IN  IF \E k \in 1..Len(fields) : fields[k].data_type = "Boolean" THEN Err("Database")
        ELSE Ok([fields |-> fields,
                 rows |-> [r \in 1..Len(rows) |->
                             [k \in 1..Len(fields) |->
                                CellOf(fields[k].data_type, rows[r], fields[k].name)]]])

\* serde_json::Map::insert per field: a later field of the same name overwrites
RowObject(fields, cells) ==
  [n \in {fields[k].name : k \in 1..Len(fields)} |->
     LET last == CHOOSE k \in 1..Len(fields) :
                   fields[k].name = n /\ \A j \in (k + 1)..Len(fields) : fields[j].name # n
     IN  IF fields[last].data_type \in {"Int64", "Float64", "Utf8"} THEN cells[last] ELSE JNull]

record_batch_to_json(batch) ==
  [r \in 1..Len(batch.rows) |-> RowObject(batch.fields, batch.rows[r])]

record_batches_to_json(batches) ==
  Concat([b \in 1..Len(batches) |-> record_batch_to_json(batches[b])])

\* ------------------------------------------------------------------------
\* The embedded engine (DataFusion SessionContext): ctx maps the index of a
\* registered table to its batch
\* ------------------------------------------------------------------------
FieldIndex(batch, column) ==
  IF \E k \in 1..Len(batch.fields) : batch.fields[k].name = column
  THEN CHOOSE k \in 1..Len(batch.fields) :
         batch.fields[k].name = column /\ \A j \in 1..(k - 1) : batch.fields[j].name # column
  ELSE 0

\* rows of a x rows of b, a-major; with li > 0, only the pairs whose cells li
\* (of a) and ri (of b) are equal and not null
CrossRows(a, b, li, ri) ==
  Concat([i \in 1..Len(a) |->
            Concat([j \in 1..Len(b) |->
                      IF li = 0 \/ (a[i][li].t # "null" /\ a[i][li] = b[j][ri])
                      THEN <<a[i] \o b[j]>> ELSE <<>>])])

\* SELECT * FROM table_0 INNER JOIN table_1 ON table_0.<l> = table_1.<r>
SqlInnerJoin(ctx, left_column, right_column) ==
  IF ~({0, 1} \subseteq DOMAIN ctx) THEN Err("Database")
  ELSE LET li == FieldIndex(ctx[0], left_column)
           ri == FieldIndex(ctx[1], right_column)
       IN  IF li = 0 \/ ri = 0 THEN Err("Database")
           ELSE Ok([fields |-> ctx[0].fields \o ctx[1].fields,
                    rows |-> CrossRows(ctx[0].rows, ctx[1].rows, li, ri)])

\* SELECT * FROM table_0, table_1, ...
RECURSIVE SqlCartesianFrom(_, _, _, _)
SqlCartesianFrom(ctx, i, table_count, acc) ==
  IF i >= table_count THEN Ok(acc)
  ELSE IF i \notin DOMAIN ctx THEN Err("Database")
  ELSE SqlCartesianFrom(ctx, i + 1, table_count,
         [fields |-> acc.fields \o ctx[i].fields,
          rows |-> CrossRows(acc.rows, ctx[i].rows, 0, 0)])

SqlCartesian(ctx, table_count) ==
  IF 0 \notin DOMAIN ctx THEN Err("Database")
  ELSE SqlCartesianFrom(ctx, 1, table_count, ctx[0])

IntText == <<"0", "1", "2", "3", "4">>

\* cast of a cell to the common type of a UNION column
CastCell(cell, from_type, to_type) ==
  IF from_type = to_type \/ cell.t = "null" THEN cell
  ELSE IF cell.t = "int" /\ cell.i \in 0..(Len(IntText) - 1) THEN JStr(IntText[cell.i + 1])
  ELSE JStr(cell.s)

RECURSIVE Dedup(_, _)
Dedup(rows, seen) ==
  IF rows = <<>> THEN <<>>
  ELSE IF Head(rows) \in seen THEN Dedup(Tail(rows), seen)
  ELSE <<Head(rows)>> \o Dedup(Tail(rows), seen \cup {Head(rows)})

\* SELECT * FROM temp_table_0 UNION [ALL] SELECT * FROM temp_table_1 ...:
\* the arms need the same number of columns and are matched by position
SqlUnion(ctx, table_count, all) ==
  IF \E i \in 0..(table_count - 1) : Len(ctx[i].fields) # Len(ctx[0].fields)
  THEN Err("Database")
  ELSE
    LET width == Len(ctx[0].fields)
        TypeAt(k) == IF \A i \in 0..(table_count - 1) :
                          ctx[i].fields[k].data_type = ctx[0].fields[k].data_type
                     THEN ctx[0].fields[k].data_type ELSE "Utf8"
        fields == [k \in 1..width |-> [name |-> ctx[0].fields[k].name, data_type |-> TypeAt(k)]]
        RowsOf(i) == [r \in 1..Len(ctx[i].rows) |->
                        [k \in 1..width |->
                           CastCell(ctx[i].rows[r][k], ctx[i].fields[k].data_type, TypeAt(k))]]
        rows == Concat([n \in 1..table_count |-> RowsOf(n - 1)])
    IN  Ok([fields |-> fields, rows |-> IF all THEN rows ELSE Dedup(rows, {})])

\* DataFrame::limit(0, Some(n))
DataFrameLimit(batch, n) == [fields |-> batch.fields, rows |-> SubSeq(batch.rows, 1, Min(n, Len(batch.rows)))]

\* ------------------------------------------------------------------------
\* DataFusionFederatedExecutor: the merge step
\* ------------------------------------------------------------------------
\* build_join_sql without the ON clause
build_join_sql_unconditional(conditions, table_count) ==
  IF conditions = <<>> \/ table_count < 2
  THEN [kind |-> "table_0", left_column |-> "", right_column |-> "", table_count |-> 1]
  ELSE [kind |-> "cartesian", left_column |-> "", right_column |-> "", table_count |-> 2]

\* the merge SQL, as the query it denotes
build_join_sql(conditions, table_count) ==
  IF conditions = <<>> \/ table_count < 2
  THEN [kind |-> "table_0", left_column |-> "", right_column |-> "", table_count |-> 1]
  ELSE [kind |-> "join", left_column |-> conditions[1].left_column,
        right_column |-> conditions[1].right_column, table_count |-> 2]

build_cartesian_product_sql(table_count) ==
  IF table_count < 2
  THEN [kind |-> "table_0", left_column |-> "", right_column |-> "", table_count |-> 1]
  ELSE [kind |-> "cartesian", left_column |-> "", right_column |-> "", table_count |-> table_count]

\* SessionContext::sql
ctx_sql(ctx, sql) ==
  CASE sql.kind = "join" -> SqlInnerJoin(ctx, sql.left_column, sql.right_column)
    [] sql.kind = "cartesian" -> SqlCartesian(ctx, sql.table_count)
    [] OTHER -> IF 0 \in DOMAIN ctx THEN Ok(ctx[0]) ELSE Err("Database")

\* the registration loop of merge_with_join: a sub-result without rows is
\* skipped, so its table_<idx> is never registered
RECURSIVE register_join_tables(_, _, _)
register_join_tables(sub_results, idx, ctx) ==
  IF idx > Len(sub_results) THEN Ok(ctx)
  ELSE IF sub_results[idx].rows = <<>> THEN register_join_tables(sub_results, idx + 1, ctx)
  ELSE LET batch == json_to_record_batch(sub_results[idx].rows) IN
       IF ~batch.ok THEN batch
       ELSE register_join_tables(sub_results, idx + 1, ((idx - 1) :> batch.val) @@ ctx)

\* the DataFrame of the merge query of merge_with_join, before the limit
join_frame(sub_results, conditions) ==
  IF Len(sub_results) < 2 THEN Err("Validation")
  ELSE LET ctx == register_join_tables(sub_results, 1, <<>>) IN
       IF ~ctx.ok THEN ctx
       ELSE ctx_sql(ctx.val,
              IF conditions # <<>> THEN build_join_sql(conditions, Len(sub_results))
              ELSE build_cartesian_product_sql(Len(sub_results)))

\* apply_limit_to without the df.limit(0, Some(limit)) call
apply_limit_to_never(df, apply_limit, limit_value) == df

apply_limit_to(df, apply_limit, limit_value) ==
  IF apply_limit THEN DataFrameLimit(df, limit_value) ELSE df

merge_with_join(sub_results, conditions, apply_limit, limit_value) ==
  LET df == join_frame(sub_results, conditions) IN
  IF ~df.ok THEN df
  ELSE Ok(record_batch_to_json(apply_limit_to(df.val, apply_limit, limit_value)))

RECURSIVE register_union_tables(_, _, _)
register_union_tables(sub_results, idx, ctx) ==
  IF idx > Len(sub_results) THEN Ok(ctx)
  ELSE LET batch == json_to_record_batch(sub_results[idx].rows) IN
       IF ~batch.ok THEN batch
       ELSE register_union_tables(sub_results, idx + 1, ((idx - 1) :> batch.val) @@ ctx)

\* the DataFrame of the merge query of merge_with_union, before the limit
union_frame(sub_results, all) ==
  LET ctx == register_union_tables(sub_results, 1, <<>>) IN
  IF ~ctx.ok THEN ctx
  ELSE IF sub_results = <<>> THEN Err("Database")
  ELSE SqlUnion(ctx.val, Len(sub_results), all)

merge_with_union(sub_results, all, apply_limit, limit_value) ==
  LET df == union_frame(sub_results, all) IN
  IF ~df.ok THEN df
  ELSE Ok(record_batches_to_json(<<apply_limit_to(df.val, apply_limit, limit_value)>>))

\* the match on plan.merge_strategy in execute_cross_database_query
merge_results(plan, sub_results) ==
  CASE plan.merge_strategy.kind = "None" ->
         Ok(IF sub_results = <<>> THEN <<>> ELSE sub_results[1].rows)
    [] plan.merge_strategy.kind \in {"InnerJoin", "LeftJoin"} ->
         merge_with_join(sub_results, plan.merge_strategy.conditions,
                         plan.apply_limit, plan.limit_value)
    [] OTHER ->
         merge_with_union(sub_results, plan.merge_strategy.all, plan.apply_limit, plan.limit_value)

\* CrossDatabaseQueryResponse::new
CrossDatabaseQueryResponse_new(original_query, sub_queries, results, limit_applied) ==
  [original_query |-> original_query,
   sub_queries |-> sub_queries,
   results |-> results,
   row_count |-> Len(results),
   limit_applied |-> limit_applied]

SubQueryExecutions(sub_results) ==
  [i \in 1..Len(sub_results) |->
     [connection_id |-> sub_results[i].connection_id,
      database_type |-> sub_results[i].database_type,
      query |-> sub_results[i].query,
      row_count |-> Len(sub_results[i].rows)]]

\* ------------------------------------------------------------------------
\* Requests, storage and adapter results the model is explored on
\* ------------------------------------------------------------------------
ConnLists == InjSeqs(ConnIds, 0, MaxConns)

AliasOptions ==
  {<<>>,
   <<("db1" :> "c1") @@ ("db2" :> "c2")>>,
   <<("db1" :> "c1")>>}

LimitOptions ==
  {[apply_limit |-> <<>>, limit_value |-> <<>>], [apply_limit |-> <<FALSE>>, limit_value |-> <<1>>]}
  \cup {[apply_limit |-> <<TRUE>>, limit_value |-> <<n>>] : n \in 1..MaxLimit}

RequestOf(q, ids, aliases, lim) ==
  [query |-> q, connection_ids |-> ids, database_aliases |-> aliases,
   timeout_secs |-> <<>>, apply_limit |-> lim.apply_limit, limit_value |-> lim.limit_value]

PlannerRequests ==
  {RequestOf(q, ids, al, [apply_limit |-> <<>>, limit_value |-> <<>>])
      : q \in QueryTexts, ids \in ConnLists, al \in AliasOptions \cup {<< <<>> >>}}

RowNames == <<"A", "B", "C", "D">>
UsersRow(i) == [id |-> JInt(i), name |-> JStr(RowNames[i])]
TodosRow(i) == [user_id |-> JInt(i), utitle |-> JStr(RowNames[i])]

\* what an adapter can return for a sub-query: the first rows of its table,
\* or the same row twice
AdapterResults(sub_query) ==
  LET row(i) == IF sub_query.tables[1] = "users" THEN UsersRow(i) ELSE TodosRow(i) IN
  {[k \in 1..n |-> row(k)] : n \in 0..MaxRows} \cup {<<row(1), row(1)>>}

EngineNames == <<"postgresql", "mysql", "doris", "druid">>

\* the connections table: a stored connection has a status and a database type
StoredConnection(c, status) ==
  [status |-> status,
   database_type |-> EngineNames[CHOOSE i \in 1..Len(ConnIdNames) : ConnIdNames[i] = c]]

\* every connection stored and connected, or one of them missing or disconnected
Storages ==
  {[c \in ConnIds |-> StoredConnection(c, "Connected")]}
  \cup {[c \in ConnIds \ {gone} |-> StoredConnection(c, "Connected")] : gone \in ConnIds}
  \cup {[c \in ConnIds |-> StoredConnection(c, IF c = down THEN "Disconnected" ELSE "Connected")]
          : down \in ConnIds}

\* ------------------------------------------------------------------------
\* Dialect translators (services/datafusion/dialect.rs)
\* ------------------------------------------------------------------------
\* the tokenizer's view of quoting: the quote characters that open a string
\* literal or a delimited identifier, in order.  inside is the quote
\* character the scan is inside of, "" outside
RECURSIVE Openers(_, _)
Openers(pieces, inside) ==
  IF pieces = <<>> THEN <<>>
  ELSE IF inside # "" THEN Openers(Tail(pieces), IF Head(pieces) = inside THEN "" ELSE inside)
  ELSE IF Head(pieces) \in {"'", "\"", Backtick}
       THEN <<Head(pieces)>> \o Openers(Tail(pieces), Head(pieces))
       ELSE Openers(Tail(pieces), "")

\* Parser::parse_sql(&dialect, sql): PostgreSqlDialect delimits identifiers
\* with double quotes only, GenericDialect with double quotes and backticks
parse_sql(dialect, sql) ==
  IF dialect = "PostgreSqlDialect" /\ Backtick \in Range(Openers(sql, ""))
  THEN Err("InvalidSql")
  ELSE Parser_parse_sql(sql)

\* str::replace(from, to): every non-overlapping match, left to right
RECURSIVE str_replace(_, _, _)
str_replace(text, from, to) ==
  IF Len(text) < Len(from) THEN text
  ELSE IF SubSeq(text, 1, Len(from)) = from
       THEN to \o str_replace(SubSeq(text, Len(from) + 1, Len(text)), from, to)
       ELSE <<Head(text)>> \o str_replace(Tail(text), from, to)

PostgreSQLDialectTranslator_translate(datafusion_sql) ==
  LET statements == parse_sql("PostgreSqlDialect", datafusion_sql) IN
  IF ~statements.ok THEN Err("Translation")
  ELSE IF statements.val = <<>> THEN Err("Translation")
  ELSE Ok(datafusion_sql)

\* translate_identifiers: the character loop, from the state it is in
RECURSIVE translate_identifiers(_, _, _)
translate_identifiers(sql, in_string, in_identifier) ==
  IF sql = <<>> THEN <<>>
  ELSE LET ch == Head(sql) IN
       CASE ch = "'" ->
              <<ch>> \o translate_identifiers(Tail(sql),
                          IF ~in_identifier THEN ~in_string ELSE in_string, in_identifier)
         [] ch = "\"" /\ ~in_string ->
              <<Backtick>> \o translate_identifiers(Tail(sql), in_string, ~in_identifier)
         [] OTHER -> <<ch>> \o translate_identifiers(Tail(sql), in_string, in_identifier)

translate_interval(sql) ==
  LET r1 == str_replace(sql, <<"INTERVAL", "'", "1", "day", "'">>, <<"INTERVAL", "1", "DAY">>)
      r2 == str_replace(r1, <<"INTERVAL", "'", "7", "days", "'">>, <<"INTERVAL", "7", "DAY">>)
      r3 == str_replace(r2, <<"INTERVAL", "'", "30", "days", "'">>, <<"INTERVAL", "30", "DAY">>)
      r4 == str_replace(r3, <<"INTERVAL", "'", "1", "hour", "'">>, <<"INTERVAL", "1", "HOUR">>)
      r5 == str_replace(r4, <<"INTERVAL", "'", "1", "month", "'">>, <<"INTERVAL", "1", "MONTH">>)
  IN  str_replace(r5, <<"INTERVAL", "'", "1", "year", "'">>, <<"INTERVAL", "1", "YEAR">>)

translate_date_functions(sql) ==
  str_replace(str_replace(sql, <<"CURRENT_DATE">>, <<"CURDATE", "(", ")">>),
              <<"CURRENT_TIMESTAMP">>, <<"NOW", "(", ")">>)

MySQLDialectTranslator_translate(datafusion_sql) ==
  LET statements == parse_sql("GenericDialect", datafusion_sql) IN
  IF ~statements.ok THEN Err("Translation")
  ELSE IF statements.val = <<>> THEN Err("Translation")
  ELSE Ok(translate_date_functions(translate_interval(
            translate_identifiers(datafusion_sql, FALSE, FALSE))))

GenericDialectTranslator_translate(datafusion_sql) == Ok(datafusion_sql)

\* dyn DialectTranslator::translate
translate(translator, datafusion_sql) ==
  CASE translator = "PostgreSQLDialectTranslator" ->
         PostgreSQLDialectTranslator_translate(datafusion_sql)
    [] translator = "MySQLDialectTranslator" -> MySQLDialectTranslator_translate(datafusion_sql)
    [] OTHER -> GenericDialectTranslator_translate(datafusion_sql)

\* ------------------------------------------------------------------------
\* DialectTranslationService (services/datafusion/translator.rs).  cache is
\* the Option of a map from <<sql, target_db>> to the translated text
\* ------------------------------------------------------------------------
DatabaseType == {"PostgreSQL", "MySQL", "Doris", "Druid"}

\* DatabaseType::from_str on a lower-case name; <<>> for the error
DatabaseType_from_str(s) ==
  CASE s \in {"postgresql", "postgres", "pg"} -> <<"PostgreSQL">>
    [] s \in {"mysql", "mariadb"} -> <<"MySQL">>
    [] s \in {"doris", "apache doris"} -> <<"Doris">>
    [] s \in {"druid", "apache druid"} -> <<"Druid">>
    [] OTHER -> <<>>

DialectTranslationService_new ==
  [translators |-> [db \in DatabaseType |->
                      CASE db = "PostgreSQL" -> "PostgreSQLDialectTranslator"
                        [] db = "MySQL" -> "MySQLDialectTranslator"
                        [] OTHER -> "GenericDialectTranslator"],
   cache |-> <<>>]

DialectTranslationService_with_cache ==
  [DialectTranslationService_new EXCEPT !.cache = << <<>> >>]

\* translate_query: the Result it returns and the service afterwards
translate_query(self, datafusion_sql, target_db) ==
  LET cache_key == <<datafusion_sql, target_db>> IN
  IF self.cache # <<>> /\ cache_key \in DOMAIN self.cache[1]
  THEN [result |-> Ok(self.cache[1][cache_key]), service |-> self]
  ELSE IF target_db \notin DOMAIN self.translators
  THEN [result |-> Err("Translation"), service |-> self]
  ELSE LET translated == translate(self.translators[target_db], datafusion_sql) IN
       IF ~translated.ok THEN [result |-> translated, service |-> self]
       ELSE [result |-> translated,
             service |-> IF self.cache = <<>> THEN self
                         ELSE [self EXCEPT !.cache[1] = (cache_key :> translated.val) @@ @]]

\* register_translator: the translators map gets the entry, the cache is not touched
register_translator(self, db_type, translator) ==
  [self EXCEPT !.translators = (db_type :> translator) @@ @]

clear_cache(self) ==
  IF self.cache # <<>> THEN [self EXCEPT !.cache = << <<>> >>] ELSE self

\* ------------------------------------------------------------------------
\* ConnectionPoolManager (services/connection_pool.rs).  A Pool is named by
\* the number of its creation; clones of a Pool are the same pool
\* ------------------------------------------------------------------------
ConnectionPoolManager_new == [pools |-> <<>>, created |-> 0]

\* the block of get_or_create_pool under the read lock: the stored pool as
\* an Option
get_or_create_pool_read(self, connection_url) ==
  IF connection_url \in DOMAIN self.pools THEN <<self.pools[connection_url]>> ELSE <<>>

\* the slow path without the second look at the map
get_or_create_pool_write_unchecked(self, connection_url, create_ok) ==
  IF ~create_ok THEN [result |-> Err("Connection"), manager |-> self]
  ELSE LET pool == self.created + 1 IN
       [result |-> Ok(pool),
        manager |-> [pools |-> (connection_url :> pool) @@ self.pools, created |-> pool]]

\* the rest of get_or_create_pool, under the write lock; create_ok is
\* whether cfg.create_pool succeeds
get_or_create_pool_write(self, connection_url, create_ok) ==
  IF connection_url \in DOMAIN self.pools
  THEN [result |-> Ok(self.pools[connection_url]), manager |-> self]
  ELSE IF ~create_ok THEN [result |-> Err("Connection"), manager |-> self]
  ELSE LET pool == self.created + 1 IN
       [result |-> Ok(pool),
        manager |-> [pools |-> (connection_url :> pool) @@ self.pools, created |-> pool]]

remove_pool(self, connection_url) ==
  [result |-> connection_url \in DOMAIN self.pools,
   manager |-> [self EXCEPT
                  !.pools = [u \in DOMAIN self.pools \ {connection_url} |-> self.pools[u]]]]

\* ------------------------------------------------------------------------
\* QueryResultCache (services/query_cache.rs).  cache maps a key to its
\* CachedResult, lru_list is the Vec of LruEntry, times are Instants
\* ------------------------------------------------------------------------
QueryResultCache_new(max_size, default_ttl_secs) ==
  [cache |-> <<>>, lru_list |-> <<>>, max_size |-> max_size, default_ttl |-> default_ttl_secs,
   stats |-> [hits |-> 0, misses |-> 0, evictions |-> 0, expirations |-> 0]]

\* CachedResult::is_expired at the instant at
is_expired(cached, at) == at - cached.cached_at > cached.ttl

\* HashMap::remove
WithoutKey(cache, key) == [k \in DOMAIN cache \ {key} |-> cache[k]]

\* lru.retain(|entry| entry.key != key)
Retain(lru, key) == SelectSeq(lru, LAMBDA entry : entry.key # key)

\* lru.sort_by_key(|entry| entry.last_accessed): a stable sort
RECURSIVE sort_by_key(_)
sort_by_key(lru) ==
  IF lru = <<>> THEN <<>>
  ELSE LET oldest == CHOOSE i \in 1..Len(lru) :
                       /\ \A j \in 1..Len(lru) : lru[i].last_accessed <= lru[j].last_accessed
                       /\ \A j \in 1..(i - 1) : lru[j].last_accessed # lru[i].last_accessed
       IN  <<lru[oldest]>> \o sort_by_key(SubSeq(lru, 1, oldest - 1) \o SubSeq(lru, oldest + 1, Len(lru)))

\* evict_lru on the locked cache and lru_list of self
evict_lru(self) ==
  IF self.lru_list = <<>> THEN self
  ELSE LET lru == sort_by_key(self.lru_list) IN
       [self EXCEPT !.cache = WithoutKey(@, lru[1].key),
                    !.lru_list = Tail(lru),
                    !.stats.evictions = @ + 1]

\* get: the Option it returns and the cache afterwards
get(self, key, at) ==
  IF key \in DOMAIN self.cache
  THEN IF is_expired(self.cache[key], at)
       THEN [result |-> <<>>,
             self |-> [self EXCEPT !.cache = WithoutKey(@, key),
                                   !.stats.misses = @ + 1,
                                   !.stats.expirations = @ + 1,
                                   !.lru_list = Retain(@, key)]]
       ELSE LET found == {i \in 1..Len(self.lru_list) : self.lru_list[i].key = key}
                first == CHOOSE i \in found : \A j \in found : i <= j
            IN  [result |-> <<self.cache[key].result>>,
                 self |-> [self EXCEPT
                             !.cache[key].hit_count = @ + 1,
                             !.stats.hits = @ + 1,
                             !.lru_list = IF found = {} THEN @
                                          ELSE [@ EXCEPT ![first].last_accessed = at]]]
  ELSE [result |-> <<>>, self |-> [self EXCEPT !.stats.misses = @ + 1]]

\* whether put has to evict before it inserts the key
put_evicts(self, key) ==
  Cardinality(DOMAIN self.cache) >= self.max_size /\ key \notin DOMAIN self.cache

put(self, key, result, ttl, at) ==
  LET room == IF put_evicts(self, key) THEN evict_lru(self) ELSE self IN
  [room EXCEPT
     !.cache = (key :> [result |-> result, cached_at |-> at,
                        ttl |-> IF ttl = <<>> THEN self.default_ttl ELSE ttl[1],
                        hit_count |-> 0]) @@ @,
     !.lru_list = Append(@, [key |-> key, last_accessed |-> at])]

clear(self) == [self EXCEPT !.cache = <<>>, !.lru_list = <<>>]

cleanup_expired(self, at) ==
  LET expired_keys == {k \in DOMAIN self.cache : is_expired(self.cache[k], at)} IN
  [self EXCEPT !.cache = [k \in DOMAIN @ \ expired_keys |-> @[k]],
               !.lru_list = SelectSeq(@, LAMBDA entry : entry.key \notin expired_keys),
               !.stats.expirations = @ + Cardinality(expired_keys)]

\* the mutexes a call locks, in the order in which it locks them; what
\* follows the first depends on what the call finds under it
LocksOf_lru_first(self, op, key) ==
  CASE op = "get" -> <<"cache", "stats">> \o (IF key \in DOMAIN self.cache THEN <<"lru_list">> ELSE <<>>)
    [] op = "put" -> <<"lru_list", "cache">>
                     \o (IF put_evicts(self, key) /\ self.lru_list # <<>> THEN <<"stats">> ELSE <<>>)
    [] op = "clear" -> <<"cache", "lru_list">>
    [] op = "cleanup_expired" -> <<"cache", "lru_list", "stats">>
    [] op = "get_stats" -> <<"stats">>
    [] OTHER -> <<"cache">>

LocksOf(self, op, key) ==
  CASE op = "get" -> <<"cache", "stats">> \o (IF key \in DOMAIN self.cache THEN <<"lru_list">> ELSE <<>>)
    [] op = "put" -> <<"cache", "lru_list">>
                     \o (IF put_evicts(self, key) /\ self.lru_list # <<>> THEN <<"stats">> ELSE <<>>)
    [] op = "clear" -> <<"cache", "lru_list">>
    [] op = "cleanup_expired" -> <<"cache", "lru_list", "stats">>
    [] op = "get_stats" -> <<"stats">>
    [] OTHER -> <<"cache">>

\* what the call does once it holds its mutexes: its return value and the
\* cache afterwards
Returns(self, op, key, ttl, at) ==
  CASE op = "get" -> get(self, key, at)
    [] op = "put" -> [result |-> <<>>, self |-> put(self, key, "rows", ttl, at)]
    [] op = "clear" -> [result |-> <<>>, self |-> clear(self)]
    [] op = "cleanup_expired" -> [result |-> <<>>, self |-> cleanup_expired(self, at)]
    [] op = "get_stats" -> [result |-> <<self.stats>>, self |-> self]
    [] OTHER -> [result |-> <<Cardinality(DOMAIN self.cache)>>, self |-> self]

\* ------------------------------------------------------------------------
\* State
\* ------------------------------------------------------------------------
VARIABLES
  pc,            \* position of the request's task
  handler,       \* "cross_database_query" | "query": the handler that serves it; "planner": plan_query alone
  request,       \* the CrossDatabaseQueryRequest
  storage,       \* stored connections by id
  planner,       \* the CrossDatabaseQueryPlanner, once built
  plan,          \* Result of plan_query
  loads,         \* connection ids read from storage so far
  adapters,      \* connection id -> database type of the adapter created for it
  sub_results,   \* SubQueryResult of each finished sub-query
  in_flight,     \* indexes of the sub-queries whose adapter call has started and not returned
  dispatched,    \* per sub-query index: number of execute_query calls started
  max_in_flight, \* most adapter calls in flight at once so far
  merge_ran,     \* the merge step has started
  call_outcomes, \* how each returned adapter call ended, in order of return
  response,      \* Result the handler returns
  sent,          \* sub-query index, connection and sql of each execute_query call started
  service,       \* the DialectTranslationService
  translation,   \* the translate_query calls made on service, in order
  conversion,    \* a row set, the RecordBatch made of it and the rows read back
  pool_manager,  \* the ConnectionPoolManager: stored pools by url, number of pools created
  pool_tasks,    \* per task: where its get_or_create_pool call stands, and its last result
  pool_log,      \* calls made; per url the pools created and handed out since its last removal
  query_cache,   \* the QueryResultCache: cache, lru_list, stats, max_size, default_ttl
  cache_locks,   \* owner of each of the three mutexes of the QueryResultCache
  cache_callers, \* calls made so far; per thread the call it is in and the mutexes it holds
  now            \* Instant::now()

pool_vars == <<pool_manager, pool_tasks, pool_log>>

cache_vars == <<query_cache, cache_locks, cache_callers, now>>

vars == <<pc, handler, request, storage, planner, plan, loads, adapters, sub_results,
          in_flight, dispatched, max_in_flight, merge_ran, call_outcomes, response,
          sent, service, translation, conversion, pool_vars, cache_vars>>

NoPlanner == [connection_map |-> <<>>, key_order |-> <<>>]
Pending == Err("pending")

InitCommon ==
  /\ planner = NoPlanner
  /\ plan = Pending
  /\ loads = <<>>
  /\ adapters = <<>>
  /\ sub_results = <<>>
  /\ in_flight = {}
  /\ dispatched = <<>>
  /\ max_in_flight = 0
  /\ merge_ran = FALSE
  /\ call_outcomes = <<>>
  /\ response = Pending
  /\ sent = <<>>
  /\ translation = <<>>
  /\ conversion = [rows |-> <<>>, batch |-> Pending, back |-> Pending]

\* the tasks that call the pool manager, and the urls they ask for
Tasks == {"t1", "t2", "t3"}
Urls == {"postgres://a", "postgres://b"}

InitPoolManager ==
  /\ pool_manager = ConnectionPoolManager_new
  /\ pool_log = [calls |-> 0, made |-> [u \in Urls |-> {}], handed |-> [u \in Urls |-> {}]]

\* a pool manager nobody calls
NoPoolTasks ==
  /\ InitPoolManager
  /\ pool_tasks = <<>>

\* the threads that call the query cache, the keys they use, its mutexes
Threads == {"a", "b"}
CacheKeys == {"k1", "k2", "k3"}
Mutexes == {"cache", "lru_list", "stats"}

\* a query cache nobody calls
NoCacheCallers ==
  /\ query_cache = QueryResultCache_new(1, 1)
  /\ cache_locks = [m \in Mutexes |-> ""]
  /\ cache_callers = [calls |-> 0, thread |-> <<>>]
  /\ now = 0

Finish(result) ==
  /\ pc' = "done"
  /\ response' = result

\* payload.validate() at the top of both handlers
Validate ==
  /\ pc = "validate"
  /\ IF validate(request).ok
     THEN /\ pc' = IF handler = "cross_database_query" THEN "load" ELSE "new_planner"
          /\ UNCHANGED response
     ELSE Finish(Err("Validation"))
  /\ UNCHANGED <<sent, service, translation, conversion, pool_vars, cache_vars>>
  /\ UNCHANGED <<handler, request, storage, planner, plan, loads, adapters, sub_results,
                 in_flight, dispatched, max_in_flight, merge_ran, call_outcomes>>

\* one iteration of the handlers' loop over payload.connection_ids:
\* storage.get_connection, the status check (cross_database_query.rs only),
\* create_adapter
LoadConnection ==
  /\ pc = "load"
  /\ Len(loads) < Len(request.connection_ids)
  /\ LET conn_id == request.connection_ids[Len(loads) + 1] IN
     /\ loads' = Append(loads, conn_id)
     /\ \E created \in BOOLEAN :
          IF conn_id \notin DOMAIN storage
          THEN Finish(Err("NotFound")) /\ UNCHANGED adapters
          ELSE IF handler = "cross_database_query" /\ storage[conn_id].status # "Connected"
          THEN Finish(Err("Connection")) /\ UNCHANGED adapters
          ELSE IF ~created
          THEN Finish(Err("Connection")) /\ UNCHANGED adapters
          ELSE /\ adapters' = (conn_id :> storage[conn_id].database_type) @@ adapters
               /\ pc' = IF Len(loads') < Len(request.connection_ids) THEN "load"
                        ELSE IF handler = "cross_database_query" THEN "new_planner"
                        ELSE "execute"
               /\ UNCHANGED response
  /\ UNCHANGED <<sent, service, translation, conversion, pool_vars, cache_vars>>
  /\ UNCHANGED <<handler, request, storage, planner, plan, sub_results,
                 in_flight, dispatched, max_in_flight, merge_ran, call_outcomes>>

\* CrossDatabaseQueryPlanner::from_request; the iteration order of the new
\* HashMap is any order of its keys
NewPlanner ==
  /\ pc = "new_planner"
  /\ \E key_order \in Perms(DOMAIN from_request(request)) :
       planner' = [connection_map |-> from_request(request), key_order |-> key_order]
  /\ pc' = "plan"
  /\ UNCHANGED <<sent, service, translation, conversion, pool_vars, cache_vars>>
  /\ UNCHANGED <<handler, request, storage, plan, loads, adapters, sub_results,
                 in_flight, dispatched, max_in_flight, merge_ran, call_outcomes, response>>

ConnectionsOf(connection_map) == {connection_map[k] : k \in DOMAIN connection_map}

\* PlanQuery with a planner that drops its qualifier map when planning fails
PlanQuery_forgetful ==
  /\ pc = "plan"
  /\ \E db_order \in Perms(ConnectionsOf(planner.connection_map)) :
       /\ plan' = plan_query(planner, request, db_order)
       /\ IF plan'.ok
          THEN /\ pc' = CASE handler = "cross_database_query" -> "execute"
                          [] handler = "query" -> "load"
                          [] OTHER -> "done"
               /\ UNCHANGED <<response, planner>>
          ELSE Finish(Err(plan'.err)) /\ planner' = NoPlanner
  /\ UNCHANGED <<sent, service, translation, conversion, pool_vars, cache_vars>>
  /\ UNCHANGED <<handler, request, storage, loads, adapters, sub_results,
                 in_flight, dispatched, max_in_flight, merge_ran, call_outcomes>>

\* planner.plan_query(&payload); the HashMap that plan_join_query builds
\* per connection id iterates in any order
PlanQuery ==
  /\ pc = "plan"
  /\ \E db_order \in Perms(ConnectionsOf(planner.connection_map)) :
       /\ plan' = plan_query(planner, request, db_order)
       /\ IF plan'.ok
          THEN /\ pc' = CASE handler = "cross_database_query" -> "execute"
                          [] handler = "query" -> "load"
                          [] OTHER -> "done"
               /\ UNCHANGED response
          ELSE Finish(Err(plan'.err))
  /\ UNCHANGED <<sent, service, translation, conversion, pool_vars, cache_vars>>
  /\ UNCHANGED <<handler, request, storage, planner, loads, adapters, sub_results,
                 in_flight, dispatched, max_in_flight, merge_ran, call_outcomes>>

\* CheckAdapters without the check: dispatch starts whatever the adapters are
CheckAdapters_unchecked ==
  /\ pc = "execute"
  /\ pc' = "dispatch"
  /\ dispatched' = [i \in 1..Len(plan.val.sub_queries) |-> 0]
  /\ UNCHANGED <<sent, service, translation, conversion, pool_vars, cache_vars>>
  /\ UNCHANGED <<handler, request, storage, planner, plan, loads, adapters, sub_results,
                 in_flight, max_in_flight, merge_ran, call_outcomes, response>>

\* execute_cross_database_query, lines 66-74: every sub-query has an adapter
CheckAdapters ==
  /\ pc = "execute"
  /\ IF \E i \in 1..Len(plan.val.sub_queries) :
          plan.val.sub_queries[i].connection_id \notin DOMAIN adapters
     THEN Finish(Err("Validation")) /\ UNCHANGED dispatched
     ELSE /\ pc' = "dispatch"
          /\ dispatched' = [i \in 1..Len(plan.val.sub_queries) |-> 0]
          /\ UNCHANGED response
  /\ UNCHANGED <<sent, service, translation, conversion, pool_vars, cache_vars>>
  /\ UNCHANGED <<handler, request, storage, planner, plan, loads, adapters, sub_results,
                 in_flight, max_in_flight, merge_ran, call_outcomes>>

\* NextToStart with one retry of the sub-query that has just finished
NextToStart_retry(n_finished, flying) ==
  IF flying = {}
  THEN {n_finished + 1} \cup {i \in {n_finished} : i >= 1 /\ dispatched[i] < 2}
  ELSE {}

\* the index of the next sub-query the dispatch loop starts, given what is in
\* flight and what has finished: the loop awaits each call before the next
NextToStart(n_finished, flying) == IF flying = {} THEN {n_finished + 1} ELSE {}

\* execute_sub_queries_parallel: the loop body up to adapter.execute_query(..)
StartCall ==
  /\ pc = "dispatch"
  /\ \E idx \in NextToStart(Len(sub_results), in_flight) \cap (1..Len(plan.val.sub_queries)) :
       IF plan.val.sub_queries[idx].connection_id \notin DOMAIN adapters
       THEN Finish(Err("Validation")) /\ UNCHANGED <<in_flight, dispatched, max_in_flight, sent>>
       ELSE /\ in_flight' = in_flight \cup {idx}
            /\ dispatched' = [dispatched EXCEPT ![idx] = @ + 1]
            /\ sent' = Append(sent, [idx |-> idx,
                                     connection_id |-> plan.val.sub_queries[idx].connection_id,
                                     sql |-> plan.val.sub_queries[idx].query])
            /\ max_in_flight' = IF Cardinality(in_flight') > max_in_flight
                                THEN Cardinality(in_flight') ELSE max_in_flight
            /\ UNCHANGED <<pc, response>>
  /\ UNCHANGED <<service, translation, conversion, pool_vars, cache_vars>>
  /\ UNCHANGED <<handler, request, storage, planner, plan, loads, adapters, sub_results,
                 merge_ran, call_outcomes>>

\* AfterCall in a partial-result mode: a failed call counts as an empty result
AfterCall_partial(idx, outcome, rows) ==
  /\ sub_results' = Append(sub_results,
       [connection_id |-> plan.val.sub_queries[idx].connection_id,
        database_type |-> adapters[plan.val.sub_queries[idx].connection_id],
        query |-> plan.val.sub_queries[idx].query,
        rows |-> IF outcome = "ok" THEN rows ELSE <<>>])
  /\ pc' = IF Len(sub_results') = Len(plan.val.sub_queries) THEN "merge" ELSE "dispatch"
  /\ UNCHANGED response

\* what follows the adapter call of sub-query idx, given how it ended
AfterCall(idx, outcome, rows) ==
  IF outcome # "ok"
  THEN Finish(Err("Database")) /\ UNCHANGED sub_results
  ELSE /\ sub_results' = Append(sub_results,
            [connection_id |-> plan.val.sub_queries[idx].connection_id,
             database_type |-> adapters[plan.val.sub_queries[idx].connection_id],
             query |-> plan.val.sub_queries[idx].query,
             rows |-> rows])
       /\ pc' = IF Len(sub_results') = Len(plan.val.sub_queries) THEN "merge" ELSE "dispatch"
       /\ UNCHANGED response

\* the awaited timeout(.., adapter.execute_query(..)) completes: with rows,
\* with an execution error, or by running out of time
ReturnCall ==
  /\ pc = "dispatch"
  /\ \E idx \in in_flight :
       /\ in_flight' = in_flight \ {idx}
       /\ \E outcome \in {"ok", "failed", "timeout"} :
            \E rows \in IF outcome = "ok" THEN AdapterResults(plan.val.sub_queries[idx]) ELSE {<<>>} :
              /\ call_outcomes' = Append(call_outcomes, outcome)
              /\ AfterCall(idx, outcome, rows)
  /\ UNCHANGED <<sent, service, translation, conversion, pool_vars, cache_vars>>
  /\ UNCHANGED <<handler, request, storage, planner, plan, loads, adapters,
                 dispatched, max_in_flight, merge_ran>>

\* execute_cross_database_query, lines 79-120: merge and build the response
Merge ==
  /\ pc = "merge"
  /\ merge_ran' = TRUE
  /\ LET merged_results == merge_results(plan.val, sub_results) IN
     IF ~merged_results.ok THEN Finish(Err(merged_results.err))
     ELSE Finish(Ok(CrossDatabaseQueryResponse_new(plan.val.original_query,
                      SubQueryExecutions(sub_results), merged_results.val,
                      plan.val.apply_limit)))
  /\ UNCHANGED <<sent, service, translation, conversion, pool_vars, cache_vars>>
  /\ UNCHANGED <<handler, request, storage, planner, plan, loads, adapters, sub_results,
                 in_flight, dispatched, max_in_flight, call_outcomes>>

\* ------------------------------------------------------------------------
\* Specifications
\* ------------------------------------------------------------------------
\* the queries the whole pipeline is explored on
PipelineQueries ==
  {RenderStatements(<<StatementQuery(b)>>) : b \in
     {SetExprSelect(SelectFrom(TableFactorTable(<<"users">>, NoAlias))),
      SetExprSelect(SelectFrom(TableFactorTable(<<"zz", "users">>, NoAlias))),
      SetExprSelect(SelectFrom(TableFactorTable(<<"db1", "users">>, NoAlias))),
      SetExprSelect(Select(<<TableWithJoins(TableFactorTable(<<"c1", "users">>, "u"),
        <<Join(TableFactorTable(<<"c2", "todos">>, "t"), "Inner",
               <<BinaryOp(CompoundIdentifier(<<"u", "id">>), "Eq",
                          CompoundIdentifier(<<"t", "user_id">>))>>)>>)>>)),
      SetExprSelect(Select(<<TableWithJoins(TableFactorTable(<<"db1", "users">>, NoAlias),
        <<Join(TableFactorTable(<<"db2", "todos">>, NoAlias), "CrossJoin", <<>>)>>)>>)),
      SetExprSetOperation(SetExprSelect(SelectFrom(TableFactorTable(<<"c1", "users">>, NoAlias))),
                          "Union", FALSE,
                          SetExprSelect(SelectFrom(TableFactorTable(<<"c2", "todos">>, NoAlias)))),
      SetExprSetOperation(SetExprSelect(SelectFrom(TableFactorTable(<<"db1", "users">>, NoAlias))),
                          "Union", TRUE,
                          SetExprSelect(SelectFrom(TableFactorTable(<<"db1", "users">>, NoAlias)))),
      SetExprSelect(SelectWhere(<<ExprOf("Wildcard", <<>>, <<>>, <<>>, "", <<>>, <<>>)>>,
        <<TableWithJoins(TableFactorTable(<<"users">>, NoAlias), <<>>)>>,
        <<BinaryOp(Identifier("created_at"), "GtEq",
                   ExprOf("Function", <<"CURRENT_DATE">>, <<>>, <<>>, "", <<>>, <<>>))>>))}}
  \cup {BadSql, <<>>, RenderStatements(<<StatementInsert>>)}

PipelineRequests ==
  {RequestOf(q, ids, al, lim)
      : q \in PipelineQueries, ids \in ConnLists, al \in AliasOptions, lim \in LimitOptions}

\* a request served by one of the two handlers
Init ==
  /\ pc = "validate"
  /\ handler \in {"cross_database_query", "query"}
  /\ request \in PipelineRequests
  /\ storage \in Storages
  /\ service = DialectTranslationService_new
  /\ InitCommon
  /\ NoPoolTasks
  /\ NoCacheCallers

Next ==
  \/ Validate
  \/ LoadConnection
  \/ NewPlanner
  \/ PlanQuery
  \/ CheckAdapters
  \/ StartCall
  \/ ReturnCall
  \/ Merge

Spec == Init /\ [][Next]_vars

\* plan_query on its own, over every query text of the corpus
InitPlanner ==
  /\ pc = "new_planner"
  /\ handler = "planner"
  /\ request \in PlannerRequests
  /\ storage = <<>>
  /\ service = DialectTranslationService_new
  /\ InitCommon
  /\ NoPoolTasks
  /\ NoCacheCallers

NextPlanner ==
  \/ NewPlanner
  \/ PlanQuery

SpecPlanner == InitPlanner /\ [][NextPlanner]_vars

\* the state of a request pipeline, which the services below do not touch
pipeline_vars ==
  <<pc, handler, request, storage, planner, plan, loads, adapters, sub_results,
    in_flight, dispatched, max_in_flight, merge_ran, call_outcomes, response, sent>>

\* service.translate_query(datafusion_sql, target_db): a first call, on any
\* text and for any engine, then a call on the text the first one returned,
\* for the same engine
TranslateQuery ==
  /\ Len(translation) < 2
  /\ Len(translation) = 1 => translation[1].result.ok
  /\ \E datafusion_sql \in IF translation = <<>> THEN QueryTexts
                             ELSE {translation[1].result.val},
        target_db \in IF translation = <<>> THEN DatabaseType
                       ELSE {translation[1].target_db} :
       LET call == translate_query(service, datafusion_sql, target_db) IN
       /\ translation' = Append(translation,
            [datafusion_sql |-> datafusion_sql, target_db |-> target_db,
             result |-> call.result])
       /\ service' = call.service
  /\ UNCHANGED <<pipeline_vars, conversion, pool_vars, cache_vars>>

\* translate_query on a service without and with a cache
InitTranslator ==
  /\ pc = "translate"
  /\ handler = "translator"
  /\ request = RequestOf(<<>>, <<>>, <<>>, [apply_limit |-> <<>>, limit_value |-> <<>>])
  /\ storage = <<>>
  /\ service \in {DialectTranslationService_new, DialectTranslationService_with_cache}
  /\ InitCommon
  /\ NoPoolTasks
  /\ NoCacheCallers

NextTranslator ==
  \/ TranslateQuery

SpecTranslator == InitTranslator /\ [][NextTranslator]_vars

\* the texts the cached service is called with: a query that the MySQL
\* translator rewrites, and text that is not SQL
CacheTexts ==
  {BadSql} \cup {t \in DOMAIN ParsedAs : "CURRENT_DATE" \in Range(t) /\ Len(t) <= 8}

\* the engines the cached service is called for and re-registered for
CacheEngines == {"PostgreSQL", "MySQL"}

\* service.translate_query(sql, target_db) on the service as it is now;
\* translation holds the last call, with the translator registered for the
\* engine when it was made and whether it added a cache entry
CachedTranslateQuery ==
  /\ handler = "translation_cache"
  /\ \E datafusion_sql \in CacheTexts, target_db \in CacheEngines :
       LET call == translate_query(service, datafusion_sql, target_db) IN
       /\ translation' = <<[datafusion_sql |-> datafusion_sql, target_db |-> target_db,
                            result |-> call.result,
                            translator |-> service.translators[target_db],
                            cache_grew |-> call.service.cache # service.cache]>>
       /\ service' = call.service
  /\ UNCHANGED <<pipeline_vars, conversion, pool_vars, cache_vars>>

\* service.register_translator(db_type, translator)
RegisterTranslator ==
  /\ handler = "translation_cache"
  /\ \E db_type \in CacheEngines,
        translator \in {"PostgreSQLDialectTranslator", "MySQLDialectTranslator",
                        "GenericDialectTranslator"} :
       service' = register_translator(service, db_type, translator)
  /\ UNCHANGED <<pipeline_vars, translation, conversion, pool_vars, cache_vars>>

\* service.clear_cache()
ClearCache ==
  /\ handler = "translation_cache"
  /\ service' = clear_cache(service)
  /\ UNCHANGED <<pipeline_vars, translation, conversion, pool_vars, cache_vars>>

\* any sequence of calls on a service with the cache enabled
InitTranslationCache ==
  /\ pc = "translate"
  /\ handler = "translation_cache"
  /\ request = RequestOf(<<>>, <<>>, <<>>, [apply_limit |-> <<>>, limit_value |-> <<>>])
  /\ storage = <<>>
  /\ service = DialectTranslationService_with_cache
  /\ InitCommon
  /\ NoPoolTasks
  /\ NoCacheCallers

NextTranslationCache ==
  \/ CachedTranslateQuery
  \/ RegisterTranslator
  \/ ClearCache

SpecTranslationCache == InitTranslationCache /\ [][NextTranslationCache]_vars

\* the row sets an adapter can hand over: up to MaxRows rows of two columns,
\* each cell an integer, a float, a string, a boolean or null
RowSets ==
  LET values == {JInt(1), JFloat(3), JStr("A"), JBool(TRUE), JNull} IN
  UNION {[1..n -> [{"id", "flag"} -> values]] : n \in 0..MaxRows}

\* self.json_to_record_batch(rows)
JsonToRecordBatch ==
  /\ conversion.batch = Pending
  /\ \E rows \in RowSets :
       conversion' = [rows |-> rows, batch |-> json_to_record_batch(rows), back |-> Pending]
  /\ UNCHANGED <<pipeline_vars, service, translation, pool_vars, cache_vars>>

\* self.record_batches_to_json(&[batch])
RecordBatchesToJson ==
  /\ conversion.batch.ok
  /\ conversion.back = Pending
  /\ conversion' = [conversion EXCEPT
                      !.back = Ok(record_batches_to_json(<<conversion.batch.val>>))]
  /\ UNCHANGED <<pipeline_vars, service, translation, pool_vars, cache_vars>>

\* a row set converted to a RecordBatch and read back
InitBatch ==
  /\ pc = "convert"
  /\ handler = "executor"
  /\ request = RequestOf(<<>>, <<>>, <<>>, [apply_limit |-> <<>>, limit_value |-> <<>>])
  /\ storage = <<>>
  /\ service = DialectTranslationService_new
  /\ InitCommon
  /\ NoPoolTasks
  /\ NoCacheCallers

NextBatch ==
  \/ JsonToRecordBatch
  \/ RecordBatchesToJson

SpecBatch == InitBatch /\ [][NextBatch]_vars

\* ------------------------------------------------------------------------
\* Tasks calling one ConnectionPoolManager.  The read-locked and the
\* write-locked block of a call are one step each: the RwLock keeps writers
\* out of the first and everyone out of the second
\* ------------------------------------------------------------------------
\* pool_log after a call on the url returned the pool
Handed(log, connection_url, pool) ==
  [log EXCEPT !.handed[connection_url] = @ \cup {pool}]

\* a task calls get_or_create_pool(url) and runs the block under the read lock
GetOrCreatePoolRead ==
  /\ pool_log.calls < MaxCalls
  /\ \E t \in DOMAIN pool_tasks, connection_url \in Urls :
       /\ pool_tasks[t].pc = "idle"
       /\ LET found == get_or_create_pool_read(pool_manager, connection_url)
              log == [pool_log EXCEPT !.calls = @ + 1]
          IN  IF found # <<>>
              THEN /\ pool_tasks' = [pool_tasks EXCEPT ![t] =
                        [pc |-> "idle", url |-> connection_url, result |-> Ok(found[1])]]
                   /\ pool_log' = Handed(log, connection_url, found[1])
              ELSE /\ pool_tasks' = [pool_tasks EXCEPT ![t] =
                        [pc |-> "write", url |-> connection_url, result |-> Pending]]
                   /\ pool_log' = log
  /\ UNCHANGED <<pool_manager, pipeline_vars, service, translation, conversion, cache_vars>>

\* the task takes the write lock and runs the rest of get_or_create_pool;
\* cfg.create_pool succeeds or fails
GetOrCreatePoolWrite ==
  \E t \in DOMAIN pool_tasks, create_ok \in BOOLEAN :
    /\ pool_tasks[t].pc = "write"
    /\ LET call == get_or_create_pool_write(pool_manager, pool_tasks[t].url, create_ok)
           url == pool_tasks[t].url
       IN  /\ pool_manager' = call.manager
           /\ pool_tasks' = [pool_tasks EXCEPT ![t] =
                [pc |-> "idle", url |-> url, result |-> call.result]]
           /\ pool_log' =
                IF ~call.result.ok THEN pool_log
                ELSE LET log == Handed(pool_log, url, call.result.val) IN
                     IF call.manager.created = pool_manager.created THEN log
                     ELSE [log EXCEPT !.made[url] = @ \cup {call.result.val}]
    /\ UNCHANGED <<pipeline_vars, service, translation, conversion, cache_vars>>

\* a task calls remove_pool(url): one block under the write lock
RemovePool ==
  /\ pool_log.calls < MaxCalls
  /\ \E t \in DOMAIN pool_tasks, connection_url \in Urls :
       /\ pool_tasks[t].pc = "idle"
       /\ LET call == remove_pool(pool_manager, connection_url) IN
          /\ pool_manager' = call.manager
          /\ pool_tasks' = [pool_tasks EXCEPT ![t] =
               [pc |-> "idle", url |-> connection_url,
                result |-> IF call.result THEN Ok(0) ELSE Err("absent")]]
          /\ pool_log' = [pool_log EXCEPT !.calls = @ + 1,
                                          !.made[connection_url] = {},
                                          !.handed[connection_url] = {}]
  /\ UNCHANGED <<pipeline_vars, service, translation, conversion, cache_vars>>

InitPools ==
  /\ pc = "pools"
  /\ handler = "pool_manager"
  /\ request = RequestOf(<<>>, <<>>, <<>>, [apply_limit |-> <<>>, limit_value |-> <<>>])
  /\ storage = <<>>
  /\ service = DialectTranslationService_new
  /\ InitCommon
  /\ InitPoolManager
  /\ pool_tasks = [t \in Tasks |-> [pc |-> "idle", url |-> "", result |-> Pending]]
  /\ NoCacheCallers

NextPools ==
  \/ GetOrCreatePoolRead
  \/ GetOrCreatePoolWrite
  \/ RemovePool

SpecPools == InitPools /\ [][NextPools]_vars

\* ------------------------------------------------------------------------
\* Threads calling one QueryResultCache.  A call takes its mutexes one step
\* at a time and does its work when it holds them all; whatever it reads or
\* writes is behind a mutex it holds from the lock() on to its return
\* ------------------------------------------------------------------------
Idle == [pc |-> "idle", op |-> "", key |-> "", ttl |-> <<>>, held |-> <<>>]

\* a thread calls get(key), put(key, result, ttl), clear(), cleanup_expired(),
\* get_stats() or size()
CacheCall ==
  /\ cache_callers.calls < MaxCalls
  /\ \E t \in DOMAIN cache_callers.thread :
       /\ cache_callers.thread[t].pc = "idle"
       /\ \E call \in {[op |-> "get", key |-> k, ttl |-> <<>>] : k \in CacheKeys}
                      \cup {[op |-> "put", key |-> k, ttl |-> ttl] : k \in CacheKeys, ttl \in {<<>>, <<0>>}}
                      \cup {[op |-> op, key |-> "", ttl |-> <<>>]
                               : op \in {"clear", "cleanup_expired", "get_stats", "size"}} :
            cache_callers' = [calls |-> cache_callers.calls + 1,
                              thread |-> [cache_callers.thread EXCEPT ![t] =
                                [pc |-> "locking", op |-> call.op, key |-> call.key,
                                 ttl |-> call.ttl, held |-> <<>>]]]
  /\ UNCHANGED <<query_cache, cache_locks, now>>
  /\ UNCHANGED <<pipeline_vars, service, translation, conversion, pool_vars>>

\* the next mutex of the call is free: self.<mutex>.lock().unwrap() returns
CacheLock ==
  /\ \E t \in DOMAIN cache_callers.thread :
       /\ cache_callers.thread[t].pc = "locking"
       /\ LET caller == cache_callers.thread[t]
              locks == LocksOf(query_cache, caller.op, caller.key)
          IN  /\ Len(caller.held) < Len(locks)
              /\ cache_locks[locks[Len(caller.held) + 1]] = ""
              /\ cache_locks' = [cache_locks EXCEPT ![locks[Len(caller.held) + 1]] = t]
              /\ cache_callers' = [cache_callers EXCEPT
                                     !.thread[t].held = Append(@, locks[Len(caller.held) + 1])]
  /\ UNCHANGED <<query_cache, now>>
  /\ UNCHANGED <<pipeline_vars, service, translation, conversion, pool_vars>>

\* the call holds its mutexes: it does its work, drops the guards and returns
CacheReturn ==
  /\ \E t \in DOMAIN cache_callers.thread :
       /\ cache_callers.thread[t].pc = "locking"
       /\ LET caller == cache_callers.thread[t] IN
          /\ caller.held = LocksOf(query_cache, caller.op, caller.key)
          /\ query_cache' = Returns(query_cache, caller.op, caller.key, caller.ttl, now).self
       /\ cache_callers' = [cache_callers EXCEPT !.thread[t] = Idle]
       /\ cache_locks' = [m \in Mutexes |-> IF cache_locks[m] = t THEN "" ELSE cache_locks[m]]
  /\ UNCHANGED now
  /\ UNCHANGED <<pipeline_vars, service, translation, conversion, pool_vars>>

\* time passes
Tick ==
  /\ cache_callers.thread # <<>>
  /\ now < MaxTime
  /\ now' = now + 1
  /\ UNCHANGED <<query_cache, cache_locks, cache_callers>>
  /\ UNCHANGED <<pipeline_vars, service, translation, conversion, pool_vars>>

\* any sequence of calls on a cache of any size, by one thread, as time passes
InitQueryCache ==
  /\ pc = "cache"
  /\ handler = "query_cache"
  /\ request = RequestOf(<<>>, <<>>, <<>>, [apply_limit |-> <<>>, limit_value |-> <<>>])
  /\ storage = <<>>
  /\ service = DialectTranslationService_new
  /\ InitCommon
  /\ NoPoolTasks
  /\ \E max_size \in 1..MaxSize : query_cache = QueryResultCache_new(max_size, 1)
  /\ cache_locks = [m \in Mutexes |-> ""]
  /\ cache_callers = [calls |-> 0, thread |-> [t \in {"a"} |-> Idle]]
  /\ now = 0

NextQueryCache ==
  \/ CacheCall
  \/ CacheLock
  \/ CacheReturn
  \/ Tick

SpecQueryCache == InitQueryCache /\ [][NextQueryCache]_vars

\* concurrent calls of the threads on a cache of one entry, within one
\* instant: none of the mutexes a call takes depends on the time
InitQueryCacheLocks ==
  /\ pc = "cache"
  /\ handler = "query_cache"
  /\ request = RequestOf(<<>>, <<>>, <<>>, [apply_limit |-> <<>>, limit_value |-> <<>>])
  /\ storage = <<>>
  /\ service = DialectTranslationService_new
  /\ InitCommon
  /\ NoPoolTasks
  /\ query_cache = QueryResultCache_new(1, 1)
  /\ cache_locks = [m \in Mutexes |-> ""]
  /\ cache_callers = [calls |-> 0, thread |-> [t \in Threads |-> Idle]]
  /\ now = 0

NextQueryCacheLocks ==
  \/ CacheCall
  \/ CacheLock
  \/ CacheReturn

\* a thread that can take its next mutex, or return, does so
SpecQueryCacheFair ==
  /\ InitQueryCacheLocks
  /\ [][NextQueryCacheLocks]_vars
  /\ WF_vars(CacheLock)
  /\ WF_vars(CacheReturn)

\* ------------------------------------------------------------------------
\* Vocabulary of the properties
\* ------------------------------------------------------------------------
\* plan_query has returned for the request
Planned == plan # Pending

\* the request is one statement, and that statement is a query
IsQueryRequest(req) ==
  LET st == Parser_parse_sql(req.query) IN
  st.ok /\ Len(st.val) = 1 /\ st.val[1].kind = "Query"

BodyOf(req) == Parser_parse_sql(req.query).val[1].body[1]

\* a SELECT over one table, no join
IsSingleTable(select) ==
  /\ Len(select.from) = 1
  /\ select.from[1].joins = <<>>
  /\ select.from[1].relation.kind = "Table"

\* every table name written in a query, the tables of derived tables included
RECURSIVE SelectTableNames(_)
SelectTableNames(select) ==
  UNION {IF f.kind = "Table" THEN {f.name} ELSE SelectTableNames(f.subquery[1])
           : f \in Range(FromFactors(select))}

RECURSIVE SetExprTableNames(_)
SetExprTableNames(b) ==
  CASE b.kind = "Select" -> SelectTableNames(b.select[1])
    [] b.kind = "SetOperation" -> SetExprTableNames(b.left[1]) \cup SetExprTableNames(b.right[1])
    [] b.kind = "Query" -> SetExprTableNames(b.left[1])
    [] OTHER -> {}

\* the SELECT arms of a set operation, left to right
RECURSIVE ArmsOf(_)
ArmsOf(b) ==
  CASE b.kind = "Select" -> <<b.select[1]>>
    [] b.kind = "SetOperation" -> ArmsOf(b.left[1]) \o ArmsOf(b.right[1])
    [] b.kind = "Query" -> ArmsOf(b.left[1])
    [] OTHER -> <<>>

\* a table name the planner's map can resolve
Resolvable(name, connection_map) ==
  \/ Len(name) = 1 /\ DOMAIN connection_map # {}
  \/ Len(name) = 2 /\ name[1] \in DOMAIN connection_map

\* ------------------------------------------------------------------------
\* C1  An unqualified single-table SELECT with N >= 1 connection ids (and no
\* alias map, so that the qualifier map is the connection list) is planned
\* as exactly one SubQuery on the first connection id of the list, with
\* merge strategy None.
\* ------------------------------------------------------------------------
IsUnqualifiedSingle(req) ==
  /\ IsQueryRequest(req)
  /\ BodyOf(req).kind = "Select"
  /\ IsSingleTable(BodyOf(req).select[1])
  /\ Len(BodyOf(req).select[1].from[1].relation.name) = 1

\* C1: a single SELECT over one unqualified table is planned as exactly one
\* SubQuery on the first connection id of the request, with merge strategy None
C1_UnqualifiedUsesFirstConnection ==
  (Planned /\ IsUnqualifiedSingle(request) /\ Len(request.connection_ids) >= 1
   /\ request.database_aliases = <<>>)
    => /\ plan.ok
       /\ Len(plan.val.sub_queries) = 1
       /\ plan.val.sub_queries[1].connection_id = request.connection_ids[1]
       /\ plan.val.merge_strategy.kind = "None"

\* ------------------------------------------------------------------------
\* C2  A query that references a table qualifier which is not a key of the
\* planner's connection_map makes plan_query fail with a ValidationError,
\* wherever the qualified table is written.
\* ------------------------------------------------------------------------
HasUnknownQualifier(req, connection_map) ==
  /\ IsQueryRequest(req)
  /\ \E name \in SetExprTableNames(BodyOf(req)) :
       Len(name) = 2 /\ name[1] \notin DOMAIN connection_map

\* C2: a query that references a qualifier which is not a key of the
\* connection_map makes plan_query fail with a ValidationError
C2_UnknownQualifierIsValidationError ==
  (Planned /\ HasUnknownQualifier(request, planner.connection_map))
    => (~plan.ok /\ plan.err = "Validation")

\* ------------------------------------------------------------------------
\* C3  A SELECT joining two aliased tables of two different connections with
\* ON <a1>.<c1> = <a2>.<c2> is planned as 2 SubQuery entries, one per
\* connection, and InnerJoin with exactly one JoinCondition.
\* ------------------------------------------------------------------------
IsAliasedJoin(req, connection_map) ==
  /\ validate(req).ok
  /\ IsQueryRequest(req)
  /\ BodyOf(req).kind = "Select"
  /\ LET select == BodyOf(req).select[1] IN
     /\ Len(select.from) = 1
     /\ Len(select.from[1].joins) = 1
     /\ LET l == select.from[1].relation
            j == select.from[1].joins[1]
            r == j.relation
        IN  /\ l.kind = "Table" /\ r.kind = "Table"
            /\ l.alias # NoAlias /\ r.alias # NoAlias
            /\ Len(l.name) = 2 /\ Len(r.name) = 2
            /\ l.name[1] \in DOMAIN connection_map /\ r.name[1] \in DOMAIN connection_map
            /\ connection_map[l.name[1]] # connection_map[r.name[1]]
            /\ j.join_operator \in {"Inner", "LeftOuter"}
            /\ j.constraint # <<>>
            /\ LET on == j.constraint[1] IN
               /\ on.kind = "BinaryOp" /\ on.op = "Eq"
               /\ on.left[1].kind = "CompoundIdentifier" /\ on.right[1].kind = "CompoundIdentifier"
               /\ {on.left[1].idents[1], on.right[1].idents[1]} = {l.alias, r.alias}

LeftFactor(req) == BodyOf(req).select[1].from[1].relation
RightFactor(req) == BodyOf(req).select[1].from[1].joins[1].relation
OnClause(req) == BodyOf(req).select[1].from[1].joins[1].constraint[1]

\* the table that carries an alias in the request's FROM clause
TableOfAlias(req, a) ==
  IF LeftFactor(req).alias = a THEN LeftFactor(req).name[2] ELSE RightFactor(req).name[2]

\* a qualifier of the ON clause as the JoinCondition carries it: replaced by
\* the alias of the joined table of that name when it is the name of a joined
\* table, kept as written otherwise
AliasOfQualifier(req, q) ==
  IF RightFactor(req).name[2] = q THEN RightFactor(req).alias
  ELSE IF LeftFactor(req).name[2] = q THEN LeftFactor(req).alias
  ELSE q

TwoSubQueriesOneCondition(req) ==
  /\ plan.ok
  /\ Len(plan.val.sub_queries) = 2
  /\ {plan.val.sub_queries[i].connection_id : i \in 1..2}
       = {planner.connection_map[LeftFactor(req).name[1]],
          planner.connection_map[RightFactor(req).name[1]]}
  /\ plan.val.merge_strategy.kind = "InnerJoin"
  /\ Len(plan.val.merge_strategy.conditions) = 1
  /\ plan.val.merge_strategy.conditions[1].left_column = OnClause(req).left[1].idents[2]
  /\ plan.val.merge_strategy.conditions[1].right_column = OnClause(req).right[1].idents[2]

IsUnionOfSingles(req, connection_map) ==
  /\ validate(req).ok
  /\ IsQueryRequest(req)
  /\ BodyOf(req).kind = "SetOperation"
  /\ BodyOf(req).op = "Union"
  /\ \A i \in 1..Len(ArmsOf(BodyOf(req))) :
       /\ IsSingleTable(ArmsOf(BodyOf(req))[i])
       /\ Resolvable(ArmsOf(BodyOf(req))[i].from[1].relation.name, connection_map)

\* C4: one SubQuery per arm in left-to-right order, merge strategy Union, and
\* all is true exactly when the query is written UNION ALL
C4_UnionAllFlag ==
  (Planned /\ IsUnionOfSingles(request, planner.connection_map))
    => /\ plan.ok
       /\ Len(plan.val.sub_queries) = Len(ArmsOf(BodyOf(request)))
       /\ \A i \in 1..Len(plan.val.sub_queries) :
            LET name == ArmsOf(BodyOf(request))[i].from[1].relation.name
            IN  plan.val.sub_queries[i].tables = <<name[Len(name)]>>
       /\ plan.val.merge_strategy.kind = "Union"
       /\ plan.val.merge_strategy.all = BodyOf(request).all

\* ------------------------------------------------------------------------
\* C5  Fail-fast: once the adapter call of a sub-query has failed or timed
\* out, the request has ended with an error: there is no response, the merge
\* step has not run and no rows reach the caller.
\* ------------------------------------------------------------------------
SomeCallFailed == \E k \in 1..Len(call_outcomes) : call_outcomes[k] # "ok"

\* C5: after a failed or timed-out adapter call the request has ended with an
\* error, without response, without merge and without rows
C5_FailFast ==
  SomeCallFailed => (pc = "done" /\ ~response.ok /\ response.val = <<>> /\ ~merge_ran)

\* the second sub-query fails after the first one returned rows
C5_Witness ==
  /\ call_outcomes = <<"ok", "timeout">>
  /\ sub_results # <<>>
  /\ sub_results[1].rows # <<>>
  /\ pc = "done"
  /\ response = Err("Database")

\* ------------------------------------------------------------------------
\* C6  When a SubQuery of the plan names a connection id without adapter,
\* the executor returns a validation error and no execute_query call has
\* been made for any sub-query of the plan.
\* ------------------------------------------------------------------------
MissingAdapter ==
  /\ plan.ok
  /\ \E i \in 1..Len(plan.val.sub_queries) :
       plan.val.sub_queries[i].connection_id \notin DOMAIN adapters

\* the handler has called execute_cross_database_query and it has returned
ExecutorReturned ==
  /\ pc = "done"
  /\ plan.ok
  /\ DOMAIN adapters = Range(request.connection_ids)

NothingDispatched ==
  /\ \A i \in DOMAIN dispatched : dispatched[i] = 0
  /\ in_flight = {}
  /\ sub_results = <<>>
  /\ call_outcomes = <<>>

\* C6: with an adapter missing nothing is ever dispatched, and the executor
\* returns a validation error
C6_MissingAdapterBeforeDispatch ==
  MissingAdapter
    => /\ NothingDispatched
       /\ ExecutorReturned => response = Err("Validation")

\* the sub-query that lacks an adapter comes after one that has an adapter
C6_Witness ==
  /\ ExecutorReturned
  /\ Len(plan.val.sub_queries) = 2
  /\ plan.val.sub_queries[1].connection_id \in DOMAIN adapters
  /\ plan.val.sub_queries[2].connection_id \notin DOMAIN adapters
  /\ response = Err("Validation")

\* ------------------------------------------------------------------------
\* C7  When plan_query fails, no execute_query call is ever made for the
\* request, and plan_query changes neither the planner's connection_map nor
\* the stored connections.
\* ------------------------------------------------------------------------
PlanFailed == Planned /\ ~plan.ok

\* C7: the planning step leaves planner and stored connections as they are,
\* and a failed planning ends the request with nothing dispatched
C7_PlanningFailureDispatchesNothing ==
  [][/\ pc = "plan" => (planner' = planner /\ storage' = storage)
     /\ PlanFailed' => (NothingDispatched' /\ pc' = "done" /\ ~response'.ok /\ ~merge_ran')]_vars

\* planning fails in cross_database_query.rs, where the adapters exist already
C7_Witness ==
  /\ PlanFailed
  /\ plan.err = "Validation"
  /\ adapters # <<>>
  /\ pc = "done"

\* ------------------------------------------------------------------------
\* C8  Limit enforcement: for a join or union plan with apply_limit = true
\* and limit_value = L whose merge query produces m rows, the response holds
\* exactly min(m, L) rows and limit_applied is true.
\* ------------------------------------------------------------------------
IsMergePlan == plan.ok /\ plan.val.merge_strategy.kind \in {"InnerJoin", "LeftJoin", "Union"}

\* the DataFrame of the merge query, before the limit
MergeFrame ==
  IF plan.val.merge_strategy.kind = "Union"
  THEN union_frame(sub_results, plan.val.merge_strategy.all)
  ELSE join_frame(sub_results, plan.val.merge_strategy.conditions)

\* C8: with apply_limit the response holds min(m, L) rows of the m merged rows
\* and reports limit_applied
C8_LimitEnforced ==
  (pc = "done" /\ response.ok /\ IsMergePlan /\ plan.val.apply_limit)
    => /\ Len(response.val.results)
            = Min(Len(MergeFrame.val.rows), plan.val.limit_value)
       /\ response.val.row_count = Len(response.val.results)
       /\ response.val.limit_applied

\* the merge produces more rows than the limit lets through
C8_Witness ==
  /\ pc = "done" /\ response.ok /\ IsMergePlan /\ plan.val.apply_limit
  /\ plan.val.limit_value = 1
  /\ Len(MergeFrame.val.rows) >= 4
  /\ Len(response.val.results) = 1
  /\ response.val.limit_applied

\* ------------------------------------------------------------------------
\* C9  Within a request whose plan has two or more sub-queries, dispatch is
\* concurrent: by the time all sub-queries have returned, two adapter calls
\* of the request have been in flight at the same time.
\* ------------------------------------------------------------------------
\* C9: when every sub-query of a plan of two or more has returned, two adapter
\* calls have been in flight together
C9_DispatchOverlaps ==
  (pc = "merge" /\ Len(plan.val.sub_queries) >= 2) => max_in_flight >= 2

\* ------------------------------------------------------------------------
\* C10  Every SubQuery is executed exactly once: no sub-query is dispatched
\* twice in any execution, and in an execution that returns a response each
\* sub-query of the plan has been dispatched exactly once.
\* ------------------------------------------------------------------------
\* C10: no sub-query is dispatched twice; a response means every sub-query was
\* dispatched exactly once
C10_ExactlyOnce ==
  /\ \A i \in DOMAIN dispatched : dispatched[i] <= 1
  /\ (pc = "done" /\ response.ok)
       => /\ DOMAIN dispatched = 1..Len(plan.val.sub_queries)
          /\ \A i \in DOMAIN dispatched : dispatched[i] = 1

\* a failed execution and a successful one, each with two sub-queries
C10_Witness ==
  /\ pc = "done" /\ response.ok
  /\ Len(plan.val.sub_queries) = 2
  /\ dispatched = <<1, 1>>

C10_WitnessFailed ==
  /\ pc = "done" /\ ~response.ok
  /\ call_outcomes = <<"ok", "failed">>
  /\ dispatched = <<1, 1>>

\* ------------------------------------------------------------------------
\* Plan invariants
\* ------------------------------------------------------------------------
\* the connection that owns a table name the planner's map resolves
Owner(name) ==
  IF Len(name) = 1 THEN planner.connection_map[planner.key_order[1]]
  ELSE planner.connection_map[name[1]]

OwnersOf(names) == {Owner(n) : n \in {m \in names : Resolvable(m, planner.connection_map)}}

SubQueryConnections == {plan.val.sub_queries[i].connection_id : i \in 1..Len(plan.val.sub_queries)}

\* the body of the first statement of the request
FirstBody == Parser_parse_sql(request.query).val[1].body[1]

\* C12: a returned plan with merge strategy None has exactly one SubQuery
C12_NoneHasOneSubQuery ==
  (Planned /\ plan.ok /\ plan.val.merge_strategy.kind = "None")
    => Len(plan.val.sub_queries) = 1

\* a join of two tables of one connection is planned with strategy None
C12_Witness ==
  /\ Planned /\ plan.ok
  /\ plan.val.merge_strategy.kind = "None"
  /\ Len(plan.val.sub_queries) = 1
  /\ Len(plan.val.sub_queries[1].tables) = 2

\* the names of the tables written as FROM items or JOIN relations of a SELECT
FromTableNames(select) ==
  {f.name : f \in {g \in Range(FromFactors(select)) : g.kind = "Table"}}

HasMixedArm(req) ==
  /\ validate(req).ok
  /\ IsQueryRequest(req)
  /\ BodyOf(req).kind = "SetOperation"
  /\ BodyOf(req).op = "Union"
  /\ \E k \in 1..Len(ArmsOf(BodyOf(req))) :
       LET names == SelectTableNames(ArmsOf(BodyOf(req))[k]) IN
       /\ \A n \in names : Resolvable(n, planner.connection_map)
       /\ Cardinality(OwnersOf(names)) >= 2

\* C14: a UNION with an arm over two connections is not planned, and every
\* SubQuery of a Union plan holds the tables of one arm, all of them owned
\* by the SubQuery's connection
C14_MixedArmIsAnError ==
  /\ (Planned /\ HasMixedArm(request)) => ~plan.ok
  /\ (Planned /\ plan.ok /\ plan.val.merge_strategy.kind = "Union" /\ IsQueryRequest(request))
       => \A i \in 1..Len(plan.val.sub_queries) :
            \E k \in 1..Len(ArmsOf(BodyOf(request))) :
              LET names == SelectTableNames(ArmsOf(BodyOf(request))[k]) IN
              /\ {n[Len(n)] : n \in names} = Range(plan.val.sub_queries[i].tables)
              /\ OwnersOf(names) = {plan.val.sub_queries[i].connection_id}

\* the request parses, but not as exactly one query statement
NotOneQuery(req) ==
  LET st == Parser_parse_sql(req.query) IN
  /\ validate(req).ok
  /\ st.ok
  /\ \/ Len(st.val) >= 2
     \/ Len(st.val) >= 1 /\ st.val[1].kind # "Query"

\* C15: a request of two or more statements, or whose statement is not a
\* query, is rejected and yields no plan
C15_OnlyOneSelectStatement ==
  (Planned /\ NotOneQuery(request)) => ~plan.ok

\* a SELECT with the qualifier prefix of every table reference removed, at
\* every depth, and nothing else changed
RECURSIVE WithoutQualifiers(_)
FactorWithoutQualifiers(f) ==
  IF f.kind = "Table" THEN [f EXCEPT !.name = <<f.name[Len(f.name)]>>]
  ELSE [f EXCEPT !.subquery = <<WithoutQualifiers(f.subquery[1])>>]

WithoutQualifiers(select) ==
  [select EXCEPT !.from =
     [i \in 1..Len(select.from) |->
        [relation |-> FactorWithoutQualifiers(select.from[i].relation),
         joins |-> [j \in 1..Len(select.from[i].joins) |->
                      [select.from[i].joins[j] EXCEPT
                         !.relation = FactorWithoutQualifiers(@)]]]]]

\* C16: the SubQuery of a single-connection plan of a SELECT carries the text
\* of the request with the qualifier prefix of every table reference removed
\* and nothing else changed
C16_OnlyQualifiersRemoved ==
  (Planned /\ plan.ok /\ plan.val.merge_strategy.kind = "None"
     /\ Len(Parser_parse_sql(request.query).val) = 1 /\ FirstBody.kind = "Select")
    => plan.val.sub_queries[1].query
         = RenderSelect(WithoutQualifiers(FirstBody.select[1]))

\* what the translation service makes of a sub-query for the engine of the
\* adapter of a connection
TranslatedFor(connection_id, query) ==
  translate_query(DialectTranslationService_new, query,
                  DatabaseType_from_str(adapters[connection_id])[1]).result

\* C11: the SQL handed to an adapter's execute_query is the translation of
\* the sub-query's SQL into the dialect of that adapter's engine
C11_SentSqlIsTranslated ==
  \A k \in 1..Len(sent) :
    LET translated == TranslatedFor(sent[k].connection_id,
                                    plan.val.sub_queries[sent[k].idx].query)
    IN  translated.ok /\ sent[k].sql = translated.val

\* C17: translate_query returns an error, never a text, for SQL that does not
\* parse, whichever the engine
C17_MalformedIsRejected ==
  \A k \in 1..Len(translation) :
    ~Parser_parse_sql(translation[k].datafusion_sql).ok => ~translation[k].result.ok

\* C18: translating the output of a translation again, for the same engine,
\* succeeds and returns it unchanged; the translators of PostgreSQL, Doris and
\* Druid return their input
C18_Idempotent ==
  /\ Len(translation) = 2
       => /\ translation[2].result.ok
          /\ translation[2].result.val = translation[1].result.val
  /\ \A k \in 1..Len(translation) :
       (translation[k].result.ok /\ translation[k].target_db \in {"PostgreSQL", "Doris", "Druid"})
         => translation[k].result.val = translation[k].datafusion_sql

\* an interval literal whose value is a quoted string stands in the text
HasQuotedInterval(sql) ==
  \E i \in 1..(Len(sql) - 1) : sql[i] = "INTERVAL" /\ sql[i + 1] = "'"

\* C19: the output of the MySQL translator has no double-quoted identifier,
\* no quoted interval literal, no CURRENT_DATE and no CURRENT_TIMESTAMP
C19_MySqlRewrites ==
  \A k \in 1..Len(translation) :
    (translation[k].target_db = "MySQL" /\ translation[k].result.ok)
      => /\ "\"" \notin Range(Openers(translation[k].result.val, ""))
         /\ ~HasQuotedInterval(translation[k].result.val)
         /\ Range(translation[k].result.val) \cap {"CURRENT_DATE", "CURRENT_TIMESTAMP"} = {}

\* the same JSON value; an integer read back as the float of the same value
\* counts as kept
SameValue(a, b) == a = b \/ (a.t = "int" /\ b.t = "float" /\ b.i = 2 * a.i)

\* C20: a row set converts to a batch, the batch converts back, and every
\* cell of every row comes back with its value
C20_RoundTripKeepsCells ==
  /\ conversion.batch # Pending => conversion.batch.ok
  /\ conversion.back # Pending
       => /\ conversion.back.ok
          /\ Len(conversion.back.val) = Len(conversion.rows)
          /\ \A r \in 1..Len(conversion.rows) : \A c \in DOMAIN conversion.rows[r] :
                /\ c \in DOMAIN conversion.back.val[r]
                /\ SameValue(conversion.rows[r][c], conversion.back.val[r][c])

\* ------------------------------------------------------------------------
\* C21  For an InnerJoin plan over two sub-query results with one join
\* condition on columns a and b, the merged rows (before the limit) are the
\* combinations of a row l of the first result and a row r of the second with
\* l.a = r.b, each carrying the columns of both.
\* ------------------------------------------------------------------------
\* the two sequences hold the same elements the same number of times
SameRows(s, t) ==
  \A x \in Range(s) \cup Range(t) :
    Cardinality({i \in 1..Len(s) : s[i] = x}) = Cardinality({i \in 1..Len(t) : t[i] = x})

\* the rows l of first and r of second with l.a = r.b, as one row each
MatchingPairs(first, second, a, b) ==
  Concat([i \in 1..Len(first) |->
            Concat([j \in 1..Len(second) |->
                      IF first[i][a] = second[j][b] THEN <<second[j] @@ first[i]>> ELSE <<>>])])

\* an InnerJoin plan with one condition, merged over two results that have
\* rows with the columns of the condition
JoinOfTwo ==
  /\ pc = "done" /\ merge_ran /\ plan.ok
  /\ plan.val.merge_strategy.kind = "InnerJoin"
  /\ Len(plan.val.merge_strategy.conditions) = 1
  /\ Len(sub_results) = 2
  /\ \A r \in Range(sub_results[1].rows) :
       plan.val.merge_strategy.conditions[1].left_column \in DOMAIN r
  /\ \A r \in Range(sub_results[2].rows) :
       plan.val.merge_strategy.conditions[1].right_column \in DOMAIN r
  /\ sub_results[1].rows # <<>> /\ sub_results[2].rows # <<>>

RECURSIVE ProductRows(_)
ProductRows(results) ==
  IF results = <<>> THEN << <<>> >>
  ELSE LET rest == ProductRows(Tail(results)) IN
       Concat([i \in 1..Len(Head(results).rows) |->
                 [j \in 1..Len(rest) |-> rest[j] @@ Head(results).rows[i]]])

\* a join plan without conditions has been merged
JoinWithoutConditions ==
  /\ pc = "done" /\ merge_ran /\ plan.ok
  /\ plan.val.merge_strategy.kind \in {"InnerJoin", "LeftJoin"}
  /\ plan.val.merge_strategy.conditions = <<>>
  /\ Len(sub_results) >= 2

\* C22: without join conditions the merge succeeds and its query returns the
\* Cartesian product of the sub-query results
C22_CartesianProduct ==
  JoinWithoutConditions
    => /\ response.ok
       /\ MergeFrame.ok
       /\ SameRows(record_batch_to_json(MergeFrame.val), ProductRows(sub_results))

\* ------------------------------------------------------------------------
\* C23  A request rejected with a ValidationError (empty query, no
\* connections, unknown qualifier) is rejected before any I/O: no connection
\* has been loaded, no adapter created and no sub-query dispatched.
\* ------------------------------------------------------------------------
\* the request has ended with the ValidationError of validate or of plan_query
RejectedAsInvalid ==
  /\ pc = "done"
  /\ response = Err("Validation")
  /\ ~Planned \/ PlanFailed

\* C23: when validate or plan_query rejects the request with a
\* ValidationError, nothing has been loaded, created or dispatched for it
C23_RejectedBeforeIo ==
  RejectedAsInvalid
    => /\ loads = <<>>
       /\ adapters = <<>>
       /\ NothingDispatched

\* ------------------------------------------------------------------------
\* C27  In every response whose limit_applied is true, the number of merged
\* rows is at most the limit_value of the plan, for every merge strategy.
\* ------------------------------------------------------------------------
\* C27: a response that reports limit_applied holds at most limit_value rows
C27_LimitAppliedBoundsRows ==
  (pc = "done" /\ response.ok /\ response.val.limit_applied)
    => Len(response.val.results) <= plan.val.limit_value

\* ------------------------------------------------------------------------
\* C28  In the merge query of a join, the left column of the join condition
\* is looked up in the relation of the sub-query whose result alias is the
\* left alias of the condition, and the right column in the relation of the
\* right alias, whatever the order of the sub-queries; planning the same
\* request twice gives the same sub-query order.
\* ------------------------------------------------------------------------
\* a join plan with a condition over two sub-queries
JoinPlanWithCondition ==
  /\ Planned /\ plan.ok
  /\ plan.val.merge_strategy.kind \in {"InnerJoin", "LeftJoin"}
  /\ plan.val.merge_strategy.conditions # <<>>
  /\ Len(plan.val.sub_queries) = 2

\* C28: the merge query reads the left column from table_0 and the right
\* column from table_1, the relations of the first and of the second
\* sub-query; these are the sub-queries of the left and of the right alias,
\* and the order of the sub-queries is the same for every planning
C28_ColumnsFollowAliases ==
  JoinPlanWithCondition
    => /\ build_join_sql(plan.val.merge_strategy.conditions, Len(plan.val.sub_queries)).kind = "join"
       /\ plan.val.sub_queries[1].result_alias = plan.val.merge_strategy.conditions[1].left_alias
       /\ plan.val.sub_queries[2].result_alias = plan.val.merge_strategy.conditions[1].right_alias
       /\ \A db_order \in Perms(ConnectionsOf(planner.connection_map)) :
            plan_query(planner, request, db_order).val.sub_queries = plan.val.sub_queries

\* ------------------------------------------------------------------------
\* C29  When a sub-query of a join or union plan returns zero rows, the merge
\* still completes without error: an inner join with an empty side returns
\* an empty result, and a union with an empty arm returns the rows of the
\* other arms.
\* ------------------------------------------------------------------------
\* the merge of a join or union plan has run over results of which one is empty
MergedWithEmptyResult ==
  /\ pc = "done" /\ merge_ran /\ IsMergePlan
  /\ Len(sub_results) >= 2
  /\ \E i \in 1..Len(sub_results) : sub_results[i].rows = <<>>

\* C29: with an empty sub-query result the merge succeeds; a join returns no
\* rows, a union as many rows as the other arms hold (UNION ALL) or at most
\* that many (UNION)
C29_EmptyResultMerges ==
  MergedWithEmptyResult
    => /\ response.ok
       /\ MergeFrame.ok
       /\ plan.val.merge_strategy.kind # "Union" => MergeFrame.val.rows = <<>>
       /\ plan.val.merge_strategy.kind = "Union"
            => /\ Len(MergeFrame.val.rows) <= Len(Concat([i \in 1..Len(sub_results) |-> sub_results[i].rows]))
               /\ plan.val.merge_strategy.all
                    => Len(MergeFrame.val.rows) = Len(Concat([i \in 1..Len(sub_results) |-> sub_results[i].rows]))

\* ------------------------------------------------------------------------
\* C26  With the translation cache enabled, after any sequence of
\* translate_query, register_translator and clear_cache calls, a successful
\* translate_query(sql, engine) returns what the translator currently
\* registered for that engine returns for sql, and a failed translation adds
\* no cache entry.
\* ------------------------------------------------------------------------
\* C26: a call of translate_query that succeeds returns the translation of
\* its text by the translator registered for the engine at the time of the
\* call, and a call that fails adds no cache entry
C26_CacheFollowsTranslators ==
  \A k \in 1..Len(translation) :
    LET call == translation[k]
        current == translate(call.translator, call.datafusion_sql)
    IN  /\ call.result.ok => (current.ok /\ call.result.val = current.val)
        /\ ~call.result.ok => ~call.cache_grew

C24_SizeWithinMax ==
  Cardinality(DOMAIN query_cache.cache) <= query_cache.max_size

\* ------------------------------------------------------------------------
\* C30  No interleaving of concurrent get, put, clear, cleanup_expired,
\* get_stats and size calls on one QueryResultCache deadlocks on its three
\* mutexes: every call eventually acquires the locks it needs and returns.
\* ------------------------------------------------------------------------
\* C30: every call that a thread has started returns
C30_EveryCallReturns ==
  \A t \in Threads :
    (cache_callers.thread[t].pc = "locking") ~> (cache_callers.thread[t].pc = "idle")

\* a thread holds the cache mutex and waits for the stats mutex, which the
\* other thread holds
C30_Witness ==
  \E t, u \in Threads :
    /\ t # u
    /\ cache_callers.thread[t].pc = "locking" /\ cache_callers.thread[u].pc = "locking"
    /\ cache_callers.thread[t].held = <<"cache">>
    /\ cache_callers.thread[t].op = "get"
    /\ cache_locks["stats"] = u
    /\ cache_locks["cache"] = t

====
